---- MODULE Spec2Model ----
(***************************************************************************)
(* Model of the trial-retrieval pipeline of biotrak-phase-monitor:         *)
(*   logic/data_processing.py  get_trials, save_results_to_excel           *)
(*   main.py                   get_trials, save_results_to_excel, main     *)
(*   ui/app_ui.py              MainApp.generate_output, ProcessingThread   *)
(*   app.py                    main (the processing block)                 *)
(*   logic/file_operations.py  validate_excel_content, find_id_column      *)
(*   logic/auth.py             login attempts and password reset tokens    *)
(* Python None is the string "None", an empty spreadsheet cell as pandas   *)
(* reads it is the string "nan"; no input of the model uses either string  *)
(* as data.  A str that the code inspects character by character (the      *)
(* product name) is a sequence of one-character strings, every other str   *)
(* is a TLA+ string.  A dict is a record whose DOMAIN is the keys present. *)
(***************************************************************************)
EXTENDS Integers, Sequences, FiniteSets, TLC

VARIABLES
    entry,            \* which program runs: "desktop", "streamlit" or "cli"
    sheets,           \* the input workbook: a sequence of [sheet_name, columns, df]
    registry,         \* the registry's answer: search term -> sequence of pages
    pc,               \* position of the running program
    sheetIdx,         \* position of the sheet loop (0 before the first sheet)
    index,            \* get_trials: position of the row loop (0 before the first row)
    page_token,       \* get_trials: the local page_token
    studies,          \* get_trials: the studies of the decoded page still to visit
    results,          \* get_trials: the local results list
    exc,              \* the exception in flight or handled last, None if none
    results_dict,     \* the caller's mapping sheet name -> list of records
    workbook,         \* the sheets written to the output workbook, in order
    requests,         \* history: every requests.get issued, with its response
    origin,           \* history: for each element of results, the place of its study
    filterLog,        \* history: every evaluation of the geographic filter
    handed,           \* history: the mapping as it was handed to the report writer
    fault,            \* environment: the failure the report writer will meet, if any
    signals,          \* the signals of ProcessingThread not yet delivered to MainApp
    status_label,     \* MainApp: the text of the status label
    progress,         \* history: every progress.emit of ProcessingThread.run
    reports,          \* history: every message logged or shown about one sheet
    called,           \* history: the names of the sheets get_trials was called for
    archive,          \* history: the workbook of an earlier run on the same file
    session_state,    \* Streamlit: the flags processing and cancel_processing of st.session_state
    cancel_at,        \* history: the sheet and row in progress when Cancel Processing was clicked
    threads,          \* desktop: the ProcessingThreads that generate_output has started
    now,              \* the wall clock, in minutes
    login_attempts,   \* the file data/login_attempts.json
    users,            \* the file data/users.json
    reset_tokens,     \* the file data/reset_tokens.json
    calls,            \* the call of an auth function each session is in
    authLog           \* history: the auth calls that returned

vars == <<entry, sheets, registry, pc, sheetIdx, index, page_token, studies,
          results, exc, results_dict, workbook, requests, origin, filterLog, handed,
          fault, signals, status_label, progress, reports, called, archive,
          session_state, cancel_at, threads, now, login_attempts, users, reset_tokens,
          calls, authLog>>

\* the state of the desktop window's threads and of the account files
Elsewhere == <<threads, now, login_attempts, users, reset_tokens, calls, authLog>>

None == "None"
NaN == "nan"

\* ------------------------------------------------------------------ bounds
MaxRows == 2
MaxSheetRows == 2
MaxFrameRows == 1
MaxThreads == 3
MaxRequests == 2
MaxCalls == 3
MaxResetCalls == 4
LoginTick == 5
MaxLoginTime == 20
ResetTick == 30
MaxResetTime == 90

\* ------------------------------------------------------------ Python helpers
\* dict.get(k, default)
Get(d, k, default) == IF k \in DOMAIN d THEN d[k] ELSE default

\* the truth value Python gives a str-or-None
Truthy(v) == v # None /\ v # ""

RECURSIVE Join(_)
\* ', '.join(items) for a sequence of str
Join(items) ==
    IF items = <<>> THEN ""
    ELSE IF Len(items) = 1 THEN items[1]
    ELSE items[1] \o ", " \o Join(Tail(items))

\* the orders in which iterating a Python set may yield its elements
Orders(S) ==
    {s \in [1..Cardinality(S) -> S] : \A i, j \in DOMAIN s : i # j => s[i] # s[j]}

\* `needle in hay` for two str
In(needle, hay) ==
    \E i \in 1..(Len(hay) - Len(needle) + 1) : SubSeq(hay, i, i + Len(needle) - 1) = needle

RECURSIVE lstrip(_)
lstrip(s) == IF s # <<>> /\ Head(s) = " " THEN lstrip(Tail(s)) ELSE s

RECURSIVE rstrip(_)
rstrip(s) ==
    IF s # <<>> /\ s[Len(s)] = " " THEN rstrip(SubSeq(s, 1, Len(s) - 1)) ELSE s

\* str.strip()
strip(s) == rstrip(lstrip(s))

\* the characters urllib.parse.quote never escapes, among those the inputs use
Unreserved == {"A", "B", "D", "R", "X", "a", "g", "r", "u", "_", ".", "-", "~"}

\* percent-encoding of one character
PercentEncode(c) ==
    CASE c = " " -> <<"%", "2", "0">>
      [] c = "[" -> <<"%", "5", "B">>
      [] c = "]" -> <<"%", "5", "D">>
      [] c = "/" -> <<"%", "2", "F">>
      [] OTHER -> <<c>>

RECURSIVE quote(_, _)
\* urllib.parse.quote(s, safe)
quote(s, safe) ==
    IF s = <<>> THEN <<>>
    ELSE (IF Head(s) \in Unreserved \cup safe THEN <<Head(s)>> ELSE PercentEncode(Head(s)))
         \o quote(Tail(s), safe)

\* the safe characters each get_trials passes to quote
SafeChars(e) == IF e = "cli" THEN {"/"} ELSE {}

RECURSIVE unquote(_)
\* the registry's decoding of the query.intr parameter
unquote(t) ==
    IF t = <<>> THEN <<>>
    ELSE IF Head(t) = "%" /\ Len(t) >= 3
         THEN (CASE <<t[2], t[3]>> = <<"2", "0">> -> <<" ">>
                 [] <<t[2], t[3]>> = <<"5", "B">> -> <<"[">>
                 [] <<t[2], t[3]>> = <<"5", "D">> -> <<"]">>
                 [] <<t[2], t[3]>> = <<"2", "F">> -> <<"/">>
                 [] OTHER -> <<"%", t[2], t[3]>>)
              \o unquote(SubSeq(t, 4, Len(t)))
         ELSE <<Head(t)>> \o unquote(Tail(t))

\* ------------------------------------------------------- geographic filter
european_countries ==
    {"Austria", "Belgium", "Bulgaria", "Croatia", "Cyprus", "Czech Republic",
     "Denmark", "Estonia", "Finland", "France", "Germany", "Greece", "Hungary",
     "Iceland", "Ireland", "Italy", "Latvia", "Lithuania", "Luxembourg", "Malta",
     "Netherlands", "Norway", "Poland", "Portugal", "Romania", "Slovakia",
     "Slovenia", "Spain", "Sweden", "Switzerland", "United Kingdom"}

\* config.EUROPEAN_COUNTRIES, the list app.py imports
EUROPEAN_COUNTRIES ==
    <<"Austria", "Belgium", "Bulgaria", "Croatia", "Cyprus", "Czech Republic",
      "Denmark", "Estonia", "Finland", "France", "Germany", "Greece",
      "Hungary", "Iceland", "Ireland", "Italy", "Latvia", "Lithuania",
      "Luxembourg", "Malta", "Netherlands", "Norway", "Poland", "Portugal",
      "Romania", "Slovakia", "Slovenia", "Spain", "Sweden", "Switzerland",
      "United Kingdom">>

IsRelevantEuropeOnly(countries) == countries \cap european_countries # {}

\* countries.intersection({'United States', 'Canada'} | european_countries), as a truth value
IsRelevant(countries) ==
    countries \cap ({"United States", "Canada"} \cup european_countries) # {}

\* {location['country'] for location in locations if 'country' in location}
Countries(protocol_section) ==
    LET locations == Get(Get(protocol_section, "contactsLocationsModule", <<>>),
                         "locations", <<>>)
    IN  {locations[i].country : i \in {j \in DOMAIN locations : "country" \in DOMAIN locations[j]}}

\* ------------------------------------------------------- study normalizer
\* the exception the body of `for study in studies` raises for this study,
\* None if it raises none: the subscripts are evaluated in source order
StudyError(study) ==
    IF "protocolSection" \notin DOMAIN study THEN "KeyError"
    ELSE LET protocol_section == study.protocolSection IN
    IF "identificationModule" \notin DOMAIN protocol_section THEN "KeyError"
    ELSE IF "statusModule" \notin DOMAIN protocol_section THEN "KeyError"
    ELSE IF "sponsorCollaboratorsModule" \notin DOMAIN protocol_section THEN "KeyError"
    ELSE IF ~IsRelevant(Countries(protocol_section)) THEN None
    ELSE IF Get(Get(protocol_section, "designModule", <<>>), "phases", <<"Not Available">>) = <<>>
         THEN "IndexError"
    ELSE IF "nctId" \notin DOMAIN protocol_section.identificationModule THEN "KeyError"
    ELSE IF "leadSponsor" \notin DOMAIN protocol_section.sponsorCollaboratorsModule
         THEN "KeyError"
    ELSE IF "name" \notin DOMAIN protocol_section.sponsorCollaboratorsModule.leadSponsor
         THEN "KeyError"
    ELSE IF "overallStatus" \notin DOMAIN protocol_section.statusModule THEN "KeyError"
    ELSE None

\* [intervention.get('name', 'Unknown intervention') for intervention in interventions]
InterventionNames(protocol_section) ==
    LET interventions == Get(Get(protocol_section, "armsInterventionsModule", <<>>),
                             "interventions", <<>>)
    IN  [i \in DOMAIN interventions |-> Get(interventions[i], "name", "Unknown intervention")]

DetailsOfFirstRow(study, row, df, order) ==
    LET protocol_section == study.protocolSection
        status_info == protocol_section.statusModule
    IN  [id_column |-> df[1].product_id,
         Product_Name |-> row.Product_Name,
         Product_Name_on_CT_gov |-> Join(InterventionNames(protocol_section)),
         original_phase |-> df[1].Original_Phase,
         Phase_on_CT_gov |->
             Get(Get(protocol_section, "designModule", <<>>), "phases", <<"Not Available">>)[1],
         NCT_Number |-> protocol_section.identificationModule.nctId,
         sponsor_name |-> protocol_section.sponsorCollaboratorsModule.leadSponsor.name,
         Status_on_CT_gov |-> status_info.overallStatus,
         Location_on_CT_gov |-> Join(order),
         Trial_Start_Date |-> Get(Get(status_info, "startDateStruct", <<>>), "date", "Not Available"),
         Trial_End_Date |-> Get(Get(status_info, "completionDateStruct", <<>>), "date", "Not Available"),
         Is_FDA_Regulated_Drug |->
             Get(Get(protocol_section, "oversightModule", <<>>), "isFdaRegulatedDrug", FALSE),
         Conditions |-> Join(Get(Get(protocol_section, "conditionsModule", <<>>), "conditions", <<>>))]

DetailsEndDateNone(study, row, df, order) ==
    [DetailsOfFirstRow(study, row, <<row>>, order) EXCEPT
        !.Trial_End_Date =
            Get(Get(study.protocolSection.statusModule, "completionDateStruct", <<>>), "date", None)]

\* the details dict of a relevant study that raises nothing; row is the row of
\* df being iterated, order the order in which the set countries is iterated.
\* (main.py names the first two keys 'bioTRAK Product ID' and 'bioTRAK Product Name'.)
Details(study, row, df, order) ==
    LET protocol_section == study.protocolSection
        status_info == protocol_section.statusModule
    IN  [id_column |-> row.product_id,
         Product_Name |-> row.Product_Name,
         Product_Name_on_CT_gov |-> Join(InterventionNames(protocol_section)),
         original_phase |-> row.Original_Phase,
         Phase_on_CT_gov |->
             Get(Get(protocol_section, "designModule", <<>>), "phases", <<"Not Available">>)[1],
         NCT_Number |-> protocol_section.identificationModule.nctId,
         sponsor_name |-> protocol_section.sponsorCollaboratorsModule.leadSponsor.name,
         Status_on_CT_gov |-> status_info.overallStatus,
         Location_on_CT_gov |-> Join(order),
         Trial_Start_Date |-> Get(Get(status_info, "startDateStruct", <<>>), "date", "Not Available"),
         Trial_End_Date |-> Get(Get(status_info, "completionDateStruct", <<>>), "date", "Not Available"),
         Is_FDA_Regulated_Drug |->
             Get(Get(protocol_section, "oversightModule", <<>>), "isFdaRegulatedDrug", FALSE),
         Conditions |-> Join(Get(Get(protocol_section, "conditionsModule", <<>>), "conditions", <<>>))]

\* ------------------------------------------------------------ report writer
DropDuplicatesKeepLast(rows) ==
    LET keep == {i \in DOMAIN rows :
                    \A j \in DOMAIN rows : j > i => rows[j].NCT_Number # rows[i].NCT_Number}
        F[i \in 0..Len(rows)] ==
            IF i = 0 THEN <<>>
            ELSE IF i \in keep THEN Append(F[i - 1], rows[i]) ELSE F[i - 1]
    IN  F[Len(rows)]

\* DataFrame.drop_duplicates(subset=['NCT Number']): keep='first' is the default
DropDuplicates(rows) ==
    LET keep == {i \in DOMAIN rows :
                    \A j \in DOMAIN rows : j < i => rows[j].NCT_Number # rows[i].NCT_Number}
        F[i \in 0..Len(rows)] ==
            IF i = 0 THEN <<>>
            ELSE IF i \in keep THEN Append(F[i - 1], rows[i]) ELSE F[i - 1]
    IN  F[Len(rows)]

\* ------------------------------------------------- the registry's answers
\* a response whose body decodes to the dict data
Ok(data) == [kind |-> "response", status_code |-> 200, decodes |-> TRUE, data |-> data]

\* a response with a non-success status
Http(code) == [kind |-> "response", status_code |-> code, decodes |-> FALSE, data |-> <<>>]

\* a 200 response whose body is not JSON: response.json() raises
BadJson == [kind |-> "response", status_code |-> 200, decodes |-> FALSE, data |-> <<>>]

\* no response: requests.get raises
ConnErr == [kind |-> "ConnectionError", status_code |-> 0, decodes |-> FALSE, data |-> <<>>]

\* a study that carries every section
sFR ==
    [protocolSection |->
       [identificationModule |-> [nctId |-> "NCT001"],
        statusModule |-> [overallStatus |-> "COMPLETED",
                          startDateStruct |-> [date |-> "2020-01"],
                          completionDateStruct |-> [date |-> "2021-06"]],
        sponsorCollaboratorsModule |-> [leadSponsor |-> [name |-> "Bayer"]],
        designModule |-> [phases |-> <<"PHASE2", "PHASE3">>],
        oversightModule |-> [isFdaRegulatedDrug |-> TRUE],
        conditionsModule |-> [conditions |-> <<"Flu", "Cold">>],
        contactsLocationsModule |-> [locations |-> <<[country |-> "France"], [facility |-> "Clinic"]>>],
        armsInterventionsModule |-> [interventions |-> <<[name |-> "Aspirin"], [type |-> "DRUG"]>>]]]

\* the study of the spec's end-to-end scenario: same trial as sFR, no optional section
sDE ==
    [protocolSection |->
       [identificationModule |-> [nctId |-> "NCT001"],
        statusModule |-> [overallStatus |-> "RECRUITING"],
        sponsorCollaboratorsModule |-> [leadSponsor |-> [name |-> "Acme"]],
        contactsLocationsModule |-> [locations |-> <<[country |-> "Germany"]>>]]]

\* a study with the three required sections and the given trial and locations
Plain(nct, locations) ==
    [protocolSection |->
       [identificationModule |-> [nctId |-> nct],
        statusModule |-> [overallStatus |-> "RECRUITING"],
        sponsorCollaboratorsModule |-> [leadSponsor |-> [name |-> "Acme"]],
        contactsLocationsModule |-> [locations |-> locations]]]

sJP == Plain("NCT002", <<[country |-> "Japan"]>>)
sJPCA == Plain("NCT002", <<[country |-> "Japan"], [country |-> "Canada"]>>)

\* a study whose optional sections are present without the fields the code reads
sUS ==
    [protocolSection |->
       [identificationModule |-> [nctId |-> "NCT003"],
        statusModule |-> [overallStatus |-> "RECRUITING",
                          startDateStruct |-> [date |-> "2022-03"]],
        sponsorCollaboratorsModule |-> [leadSponsor |-> [name |-> "Acme"]],
        designModule |-> [studyType |-> "INTERVENTIONAL"],
        oversightModule |-> [oversightHasDmc |-> TRUE],
        conditionsModule |-> [keywords |-> <<"rare">>],
        contactsLocationsModule |-> [locations |-> <<[country |-> "United States"]>>]]]

\* no location data at all
sNoLoc ==
    [protocolSection |->
       [identificationModule |-> [nctId |-> "NCT003"],
        statusModule |-> [overallStatus |-> "RECRUITING"],
        sponsorCollaboratorsModule |-> [leadSponsor |-> [name |-> "Acme"]]]]

\* relevant studies that lack one required field
sNoNct ==
    [protocolSection |->
       [identificationModule |-> [orgStudyIdInfo |-> "X1"],
        statusModule |-> [overallStatus |-> "RECRUITING"],
        sponsorCollaboratorsModule |-> [leadSponsor |-> [name |-> "Acme"]],
        contactsLocationsModule |-> [locations |-> <<[country |-> "France"]>>]]]

sNoSponsor ==
    [protocolSection |->
       [identificationModule |-> [nctId |-> "NCT004"],
        statusModule |-> [overallStatus |-> "RECRUITING"],
        sponsorCollaboratorsModule |-> [leadSponsor |-> [class |-> "INDUSTRY"]],
        contactsLocationsModule |-> [locations |-> <<[country |-> "Canada"]>>]]]

sNoStatus ==
    [protocolSection |->
       [identificationModule |-> [nctId |-> "NCT004"],
        statusModule |-> [startDateStruct |-> [date |-> "2020-01"]],
        sponsorCollaboratorsModule |-> [leadSponsor |-> [name |-> "Acme"]],
        contactsLocationsModule |-> [locations |-> <<[country |-> "Spain"]>>]]]

\* a relevant study with its required fields whose phases list is present and empty
sEmptyPhases ==
    [protocolSection |->
       [identificationModule |-> [nctId |-> "NCT005"],
        statusModule |-> [overallStatus |-> "RECRUITING"],
        sponsorCollaboratorsModule |-> [leadSponsor |-> [name |-> "Acme"]],
        designModule |-> [phases |-> <<>>],
        conditionsModule |-> [conditions |-> <<>>],
        contactsLocationsModule |-> [locations |-> <<[country |-> "Italy"]>>]]]

\* an irrelevant study that lacks its trial identifier
sJPNoNct ==
    [protocolSection |->
       [identificationModule |-> [orgStudyIdInfo |-> "X2"],
        statusModule |-> [overallStatus |-> "RECRUITING"],
        sponsorCollaboratorsModule |-> [leadSponsor |-> [name |-> "Acme"]],
        contactsLocationsModule |-> [locations |-> <<[country |-> "Japan"]>>]]]

\* an irrelevant study that lacks its identification section
sJPNoIdent ==
    [protocolSection |->
       [statusModule |-> [overallStatus |-> "RECRUITING"],
        sponsorCollaboratorsModule |-> [leadSponsor |-> [name |-> "Acme"]],
        contactsLocationsModule |-> [locations |-> <<[country |-> "Japan"]>>]]]

\* the page sequences a search term may have in the registry: page i is served
\* for the token "tok<i>", page 1 for a request without pageToken
PageSeqs ==
    { \* a token exactly twice, then none: the same trial on pages 1 and 3
      << Ok([studies |-> <<sFR, sJP>>, nextPageToken |-> "tok2"]),
         Ok([studies |-> <<sJPCA>>, nextPageToken |-> "tok3"]),
         Ok([studies |-> <<sDE>>]) >>,
      \* one page, the token present and empty
      << Ok([studies |-> <<sUS, sNoLoc, sDE>>, nextPageToken |-> ""]) >>,
      \* one page without a studies key
      << Ok([totalCount |-> "0"]) >>,
      \* a non-success status on the second page
      << Ok([studies |-> <<sDE>>, nextPageToken |-> "tok2"]),
         Http(500),
         Ok([studies |-> <<sUS>>]) >>,
      \* a non-success status on the first page
      << Http(404) >>,
      \* the connection fails on the second page
      << Ok([studies |-> <<sUS>>, nextPageToken |-> "tok2"]), ConnErr >>,
      \* a body that does not decode
      << BadJson >>,
      \* relevant studies without a required field, between complete ones
      << Ok([studies |-> <<sFR, sNoNct, sUS>>]) >>,
      << Ok([studies |-> <<sJPNoNct, sNoSponsor>>, nextPageToken |-> "tok2"]),
         Ok([studies |-> <<sUS>>]) >>,
      << Ok([studies |-> <<sUS, sNoStatus>>]) >>,
      \* a complete study with an empty phases list, between complete ones
      << Ok([studies |-> <<sDE, sEmptyPhases, sUS>>]) >>,
      \* an irrelevant study without its identification section, between complete ones
      << Ok([studies |-> <<sDE, sJPNoIdent, sUS>>]) >> }

\* the page a continuation token stands for
PageOfToken(token) == CASE token = "tok2" -> 2 [] token = "tok3" -> 3

\* ---------------------------------------------------------------- inputs
NameAB == <<" ", "A", "B", " ">>
NameDrugXR == <<"D", "r", "u", "g", " ", "[", "X", "R", "]">>

\* the search terms the registry knows
Terms == {strip(NameAB), strip(NameDrugXR)}

Registries == [Terms -> PageSeqs]

\* the cells of the ID column: an ID, None, or the NaN pandas reads from an empty cell
IdCells == {"P1", "P2", None, NaN}

PhaseOf(id) ==
    CASE id = "P1" -> "Phase I" [] id = "P2" -> "Phase II"
      [] id = None -> "Phase III" [] id = NaN -> "Preclinical"

Row(name, id) == [Product_Name |-> name, product_id |-> id, Original_Phase |-> PhaseOf(id)]

\* the rows of an input sheet, as df_input.iterrows() yields them
RowPool == {Row(NameAB, "P1"), Row(NameAB, None), Row(NameDrugXR, "P2"), Row(NameDrugXR, NaN)}

SeqsUpTo(S, n) == UNION {[1..k -> S] : k \in 0..n}

\* ------------------------------------------------------- sheet validation
\* column names, as str
ColProductName == <<"P", "r", "o", "d", "u", "c", "t", " ", "N", "a", "m", "e">>
ColOriginalPhase == <<"O", "r", "i", "g", "i", "n", "a", "l", " ", "P", "h", "a", "s", "e">>
ColBioTrakId == <<"b", "i", "o", "T", "R", "A", "K", " ", "P", "r", "o", "d", "u", "c", "t", " ", "I", "D">>
ColTcScrape ==
    <<"T", "C", " ", "S", "c", "r", "a", "p", "e", " ", "N", "u", "m", "b", "e", "r", " ", "(", "D", "u", "p", "l", "i", "c", "a", "t", "e", "s", ")">>
ColTcLower == <<"t", "c", " ", "s", "c", "r", "a", "p", "e", " ", "n", "u", "m", "b", "e", "r">>
ColProductNameInn == <<"P", "r", "o", "d", "u", "c", "t", " ", "N", "a", "m", "e", " ", "(", "I", "N", "N", ")">>
ColNotes == <<"N", "o", "t", "e", "s">>

\* id_columns of validate_excel_content
IdTcScrape == <<"T", "C", " ", "S", "c", "r", "a", "p", "e", " ", "N", "u", "m", "b", "e", "r">>
id_columns == <<ColBioTrakId, IdTcScrape>>

\* the required columns run and app.main ask for
required_columns == <<ColProductName, ColOriginalPhase>>

\* validate_excel_content for one sheet: the first element of its result tuple
validate_excel_content(df_columns) ==
    LET matching_id_columns ==
            SelectSeq(df_columns, LAMBDA col :
                \E k \in DOMAIN id_columns : In(id_columns[k], col))
        required_non_id_columns ==
            SelectSeq(required_columns, LAMBDA col :
                \A k \in DOMAIN id_columns : col # id_columns[k])
        missing_columns ==
            SelectSeq(required_non_id_columns, LAMBDA col :
                ~\E a \in DOMAIN df_columns : In(col, df_columns[a]))
    IN  IF matching_id_columns = <<>> THEN FALSE
        ELSE IF missing_columns # <<>> THEN FALSE
        ELSE TRUE

\* find_id_column: the first column that contains one of the two ID names
find_id_column(columns) ==
    LET hits == SelectSeq(columns, LAMBDA col :
                    In(id_columns[2], col) \/ In(id_columns[1], col))
    IN  IF hits = <<>> THEN None ELSE Head(hits)

\* the column layouts of an input sheet
LayoutBioTrak == <<ColProductName, ColBioTrakId, ColOriginalPhase>>
LayoutTcScrape == <<ColTcScrape, ColProductName, ColOriginalPhase>>
LayoutNoId == <<ColProductName, ColOriginalPhase, ColNotes>>
LayoutLowerId == <<ColTcLower, ColProductName, ColOriginalPhase>>
LayoutNoPhase == <<ColProductName, ColBioTrakId, ColNotes>>
LayoutInn == <<ColBioTrakId, ColProductNameInn, ColOriginalPhase>>

\* `name in df.columns`: the frame has a column of exactly this name
HasColumn(columns, name) == \E k \in DOMAIN columns : columns[k] = name

\* ------------------------------------------------------------- get_trials
\* the sheets ProcessingThread.run keeps: valid ones
valid_sheets == SelectSeq(sheets, LAMBDA sh : validate_excel_content(sh.columns))

\* and among them `if not df.empty`
non_empty_sheets == SelectSeq(valid_sheets, LAMBDA sh : sh.df # <<>>)

\* the sheets the caller's loop iterates
LoopSheets ==
    CASE entry = "desktop" -> non_empty_sheets
      [] entry = "streamlit" -> sheets
      [] entry = "cli" -> SubSeq(sheets, 1, 1)

\* df_input of the running get_trials call
df_input == LoopSheets[sheetIdx].df

\* the request get_trials builds: the encoded term, and pageToken when page_token is truthy
Url(e, intervention_name, token) ==
    [term |-> quote(strip(intervention_name), SafeChars(e)),
     pageToken |-> IF Truthy(token) THEN token ELSE None]

\* the registry's response to a request
Serve(url) ==
    LET pages == registry[unquote(url.term)]
    IN  pages[IF url.pageToken = None THEN 1 ELSE PageOfToken(url.pageToken)]

\* the response to the request get_trials is about to issue
Response == Serve(Url(entry, df_input[index].Product_Name, page_token))

\* the history entry of that request
Logged ==
    [sheet |-> sheetIdx, row |-> index,
     url |-> Url(entry, df_input[index].Product_Name, page_token),
     kind |-> Response.kind, status_code |-> Response.status_code,
     decodes |-> Response.decodes, kept |-> results]

\* the page number of the request issued last
CurrentPage ==
    LET url == requests[Len(requests)].url
    IN  IF url.pageToken = None THEN 1 ELSE PageOfToken(url.pageToken)

\* `if product_id is None: continue`, which main.py does not have
SkipsRow(e, row) == e # "cli" /\ row.product_id = None

GetTrialsFrame ==
    <<entry, sheets, registry, sheetIdx, results_dict, workbook, handed,
      fault, signals, status_label, progress, reports, called, archive,
      session_state, cancel_at, Elsewhere>>

\* row['Product Name'] or row['Original Phase'] raises KeyError: the frame has
\* no column of exactly that name
RowSubscriptRaises ==
    \/ ~HasColumn(LoopSheets[sheetIdx].columns, ColProductName)
    \/ ~HasColumn(LoopSheets[sheetIdx].columns, ColOriginalPhase)

NextRowKeepsToken ==
    /\ pc = "for_row"
    /\ index < Len(df_input)
    /\ index' = index + 1
    /\ IF RowSubscriptRaises
       THEN pc' = "raised" /\ exc' = "KeyError"
       ELSE IF SkipsRow(entry, df_input[index + 1])
       THEN pc' = "for_row" /\ UNCHANGED exc
       ELSE pc' = "while_page" /\ UNCHANGED exc
    /\ UNCHANGED <<GetTrialsFrame, page_token, studies, results, requests, origin, filterLog>>

\* for index, row in df_input.iterrows(): the next row, skipped or started
NextRow ==
    /\ pc = "for_row"
    /\ index < Len(df_input)
    /\ index' = index + 1
    /\ IF RowSubscriptRaises
       THEN pc' = "raised" /\ exc' = "KeyError" /\ UNCHANGED page_token
       ELSE IF SkipsRow(entry, df_input[index + 1])
       THEN pc' = "for_row" /\ UNCHANGED <<page_token, exc>>
       ELSE pc' = "while_page" /\ page_token' = None /\ UNCHANGED exc
    /\ UNCHANGED <<GetTrialsFrame, studies, results, requests, origin, filterLog>>

\* the row loop is exhausted: return results
Return ==
    /\ pc = "for_row"
    /\ index = Len(df_input)
    /\ pc' = "returned"
    /\ UNCHANGED <<GetTrialsFrame, index, page_token, studies, results, exc,
                   requests, origin, filterLog>>

\* requests.get raises, or response.json() does: nothing in get_trials catches it
RequestRaises ==
    /\ pc = "while_page"
    /\ \/ Response.kind = "ConnectionError"
       \/ Response.kind = "response" /\ Response.status_code = 200 /\ ~Response.decodes
    /\ requests' = Append(requests, Logged)
    /\ exc' = IF Response.kind = "ConnectionError" THEN "ConnectionError" ELSE "JSONDecodeError"
    /\ pc' = "raised"
    /\ UNCHANGED <<GetTrialsFrame, index, page_token, studies, results, origin, filterLog>>

StatusNotOkReturns ==
    /\ pc = "while_page"
    /\ Response.kind = "response" /\ Response.status_code # 200
    /\ requests' = Append(requests, Logged)
    /\ pc' = "returned"
    /\ UNCHANGED <<GetTrialsFrame, index, page_token, studies, results, exc, origin, filterLog>>

\* status_code != 200: logging.error and break
StatusNotOk ==
    /\ pc = "while_page"
    /\ Response.kind = "response" /\ Response.status_code # 200
    /\ requests' = Append(requests, Logged)
    /\ pc' = "for_row"
    /\ UNCHANGED <<GetTrialsFrame, index, page_token, studies, results, exc, origin, filterLog>>

\* status_code == 200 and the body decodes: page_token and studies are read
PageDecoded ==
    /\ pc = "while_page"
    /\ Response.kind = "response" /\ Response.status_code = 200 /\ Response.decodes
    /\ requests' = Append(requests, Logged)
    /\ page_token' = Get(Response.data, "nextPageToken", None)
    /\ studies' = Get(Response.data, "studies", <<>>)
    /\ pc' = "for_study"
    /\ UNCHANGED <<GetTrialsFrame, index, results, exc, origin, filterLog>>

\* where the study visited next sits: its sheet, row, page and position in the page
Place ==
    LET all == Get(Serve(requests[Len(requests)].url).data, "studies", <<>>)
    IN  [sheet |-> sheetIdx, row |-> index, page |-> CurrentPage,
         pos |-> Len(all) - Len(studies) + 1]

\* one turn of `for study in studies` that raises
StudyRaises ==
    /\ pc = "for_study"
    /\ studies # <<>>
    /\ StudyError(Head(studies)) # None
    /\ exc' = StudyError(Head(studies))
    /\ pc' = "raised"
    /\ UNCHANGED <<GetTrialsFrame, index, page_token, studies, results, requests,
                   origin, filterLog>>

\* the countries of all studies of the page being visited
PageCountries ==
    LET all == Get(Serve(requests[Len(requests)].url).data, "studies", <<>>)
    IN  UNION {Countries(all[i].protocolSection) : i \in DOMAIN all}

StudyVisitedFilterPerPage ==
    /\ pc = "for_study"
    /\ studies # <<>>
    /\ StudyError(Head(studies)) = None
    /\ LET study == Head(studies)
           countries == Countries(study.protocolSection)
       IN  /\ filterLog' = Append(filterLog,
                                  [place |-> Place, countries |-> countries,
                                   accepted |-> IsRelevant(countries)])
           /\ IF IsRelevant(PageCountries)
                 /\ "nctId" \in DOMAIN study.protocolSection.identificationModule
              THEN \E order \in Orders(countries) :
                     /\ results' = Append(results, Details(study, df_input[index], df_input, order))
                     /\ origin' = Append(origin, Place)
              ELSE UNCHANGED <<results, origin>>
    /\ studies' = Tail(studies)
    /\ UNCHANGED <<GetTrialsFrame, pc, index, page_token, exc, requests>>

\* one turn of `for study in studies` that raises nothing: the study is
\* appended when the filter accepts its countries
StudyVisited ==
    /\ pc = "for_study"
    /\ studies # <<>>
    /\ StudyError(Head(studies)) = None
    /\ LET study == Head(studies)
           countries == Countries(study.protocolSection)
       IN  /\ filterLog' = Append(filterLog,
                                  [place |-> Place, countries |-> countries,
                                   accepted |-> IsRelevant(countries)])
           /\ IF IsRelevant(countries)
              THEN \E order \in Orders(countries) :
                     /\ results' = Append(results, Details(study, df_input[index], df_input, order))
                     /\ origin' = Append(origin, Place)
              ELSE UNCHANGED <<results, origin>>
    /\ studies' = Tail(studies)
    /\ UNCHANGED <<GetTrialsFrame, pc, index, page_token, exc, requests>>

\* `if not page_token: break`
LastPage(token) == ~Truthy(token)

\* the studies of the page are exhausted: break on the last page, else the next page
EndPage ==
    /\ pc = "for_study"
    /\ studies = <<>>
    /\ pc' = IF LastPage(page_token) THEN "for_row" ELSE "while_page"
    /\ UNCHANGED <<GetTrialsFrame, index, page_token, studies, results, exc,
                   requests, origin, filterLog>>

get_trials ==
    \/ NextRow
    \/ Return
    \/ RequestRaises
    \/ StatusNotOk
    \/ PageDecoded
    \/ StudyRaises
    \/ StudyVisited
    \/ EndPage

\* ------------------------------------------------------------ the callers
CallFrame == <<entry, sheets, registry, requests, filterLog, fault, archive, cancel_at, Elsewhere>>

\* the signals run emits in its `except Exception` and its `finally`
ErrorThenFinished(e) == <<[signal |-> "error", message |-> e], [signal |-> "finished"]>>

\* ProcessingThread.run up to its sheet loop: without a valid non-empty sheet it
\* raises ValueError, which its own except and finally handle
RunStart ==
    /\ pc = "start"
    /\ entry = "desktop"
    /\ IF non_empty_sheets = <<>>
       THEN /\ exc' = "ValueError"
            /\ signals' = signals \o ErrorThenFinished("ValueError")
            /\ pc' = "error"
       ELSE exc' = exc /\ signals' = signals /\ pc' = "sheet_loop"
    /\ UNCHANGED <<CallFrame, session_state, sheetIdx, index, page_token, studies, results,
                   results_dict, workbook, origin, handed, status_label, progress,
                   reports, called>>

\* app.main once processing is set: the loop over the selected sheets starts
MainStart ==
    /\ pc = "start"
    /\ entry = "streamlit"
    /\ pc' = "sheet_loop"
    /\ UNCHANGED <<CallFrame, session_state, sheetIdx, index, page_token, studies, results, exc,
                   results_dict, workbook, origin, handed, signals, status_label,
                   progress, reports, called>>

\* load_interventions_from_excel: the three columns of the first sheet, or an
\* empty frame when the selection raises
CliLoads ==
    \A name \in {ColProductName, ColBioTrakId, ColOriginalPhase} :
        HasColumn(sheets[1].columns, name)

\* main.main: the first sheet is loaded; an empty frame ends the script
CliStart ==
    /\ pc = "start"
    /\ entry = "cli"
    /\ pc' = IF ~CliLoads \/ sheets[1].df = <<>> THEN "done" ELSE "sheet_loop"
    /\ reports' =
         IF ~CliLoads
         THEN Append(reports, [sheet_name |-> sheets[1].sheet_name,
                               message |-> "Failed to load Excel file"])
         ELSE reports
    /\ UNCHANGED <<CallFrame, session_state, sheetIdx, index, page_token, studies, results, exc,
                   results_dict, workbook, origin, handed, signals, status_label,
                   progress, called>>

\* the percentage run emits after sheet i: int(i / total_sheets * 100)
Percent(i) == (i * 100) \div Len(LoopSheets)

\* what the caller's loop does with the sheet it takes, before any call:
\* "skip" (reported), "pass" (nothing is said) or "call"
Disposition(e, sh) ==
    CASE e = "desktop" ->
            IF ~Truthy(find_id_column(sh.columns)) THEN "skip" ELSE "call"
      [] e = "streamlit" ->
            IF ~validate_excel_content(sh.columns) THEN "pass"
            ELSE IF find_id_column(sh.columns) = None THEN "skip" ELSE "call"
      [] e = "cli" -> "call"

\* the caller takes its next sheet: run and app.main in their loops over the
\* sheets, main.main once; get_trials is called unless the sheet is left out.
\* app.main first looks at the cancellation flag and ends the run when it is set
CallGetTrials ==
    /\ pc = "sheet_loop"
    /\ sheetIdx < Len(LoopSheets)
    /\ IF entry = "streamlit" /\ session_state.cancel_processing
       THEN /\ reports' = Append(reports, [sheet_name |-> None,
                                           message |-> "Processing cancelled by user"])
            /\ session_state' = [processing |-> FALSE, cancel_processing |-> FALSE]
            /\ pc' = "cancelled"
            /\ UNCHANGED <<sheetIdx, called, progress, results, index, origin>>
       ELSE /\ sheetIdx' = sheetIdx + 1
            /\ LET sh == LoopSheets[sheetIdx + 1]
                   d == Disposition(entry, sh)
               IN  /\ pc' = IF d = "call" THEN "for_row" ELSE "sheet_loop"
                   /\ called' = IF d = "call" THEN Append(called, sh.sheet_name) ELSE called
                   /\ reports' =
                        IF d = "skip"
                        THEN Append(reports, [sheet_name |-> sh.sheet_name,
                                              message |-> "missing ID column"])
                        ELSE reports
                   /\ progress' =
                        IF d = "skip" /\ entry = "desktop"
                        THEN Append(progress, [percent |-> Percent(sheetIdx + 1),
                                               message |-> "Skipped sheet"])
                        ELSE progress
            /\ results' = <<>>
            /\ index' = 0
            /\ origin' = <<>>
            /\ UNCHANGED session_state
    /\ UNCHANGED <<CallFrame, page_token, studies, exc, results_dict, workbook, handed,
                   signals, status_label>>

\* run: results_dict[sheet_name] = pd.DataFrame(results), and the progress signal
RunReturned ==
    /\ pc = "returned"
    /\ entry = "desktop"
    /\ results_dict' =
         [n \in DOMAIN results_dict \cup {LoopSheets[sheetIdx].sheet_name} |->
            IF n = LoopSheets[sheetIdx].sheet_name THEN results ELSE results_dict[n]]
    /\ progress' = Append(progress, [percent |-> Percent(sheetIdx), message |-> "Processed sheet"])
    /\ pc' = "sheet_loop"
    /\ UNCHANGED <<CallFrame, session_state, sheetIdx, index, page_token, studies, results, exc,
                   workbook, origin, handed, signals, status_label, reports, called>>

\* app.main: `if trial_data: results[sheet_name] = pd.DataFrame(trial_data)`,
\* else the warning
MainReturned ==
    /\ pc = "returned"
    /\ entry = "streamlit"
    /\ results_dict' =
         IF results = <<>> THEN results_dict
         ELSE [n \in DOMAIN results_dict \cup {LoopSheets[sheetIdx].sheet_name} |->
                 IF n = LoopSheets[sheetIdx].sheet_name THEN results ELSE results_dict[n]]
    /\ reports' =
         IF results = <<>>
         THEN Append(reports, [sheet_name |-> LoopSheets[sheetIdx].sheet_name,
                               message |-> "No trial data found"])
         ELSE reports
    /\ pc' = "sheet_loop"
    /\ UNCHANGED <<CallFrame, session_state, sheetIdx, index, page_token, studies, results, exc,
                   workbook, origin, handed, signals, status_label, progress, called>>

\* run's `except Exception` and `finally`: the error and finished signals are
\* emitted and the run ends without a save
RunRaised ==
    /\ pc = "raised"
    /\ entry = "desktop"
    /\ signals' = signals \o ErrorThenFinished(exc)
    /\ pc' = "error"
    /\ UNCHANGED <<CallFrame, session_state, sheetIdx, index, page_token, studies, results, exc,
                   results_dict, workbook, origin, handed, status_label, progress,
                   reports, called>>

\* app.main's per-sheet `except Exception`: the error is shown, the loop continues
MainRaised ==
    /\ pc = "raised"
    /\ entry = "streamlit"
    /\ reports' = Append(reports, [sheet_name |-> LoopSheets[sheetIdx].sheet_name,
                                   message |-> "Error processing sheet"])
    /\ pc' = "sheet_loop"
    /\ UNCHANGED <<CallFrame, session_state, sheetIdx, index, page_token, studies, results, exc,
                   results_dict, workbook, origin, handed, signals, status_label,
                   progress, called>>

\* main.main has no handler: the exception ends the script
CliRaised ==
    /\ pc = "raised"
    /\ entry = "cli"
    /\ pc' = "crashed"
    /\ UNCHANGED <<CallFrame, session_state, sheetIdx, index, page_token, studies, results, exc,
                   results_dict, workbook, origin, handed, signals, status_label,
                   progress, reports, called>>

\* the sheet names in input order that have an entry in the mapping d
Present(names, d) == SelectSeq(names, LAMBDA n : n \in DOMAIN d)

SavedSheetsDedupAcrossSheets(d, input_sheet_names) ==
    LET names == Present(input_sheet_names, d)
        seen(i) == UNION {{d[names[j]][k].NCT_Number : k \in DOMAIN d[names[j]]} : j \in 1..(i - 1)}
    IN  [i \in DOMAIN names |->
            [sheet_name |-> names[i],
             rows |-> SelectSeq(DropDuplicates(d[names[i]]),
                                LAMBDA r : r.NCT_Number \notin seen(i))]]

SavedSheetsEmptyForMissing(d, input_sheet_names) ==
    [i \in DOMAIN input_sheet_names |->
        [sheet_name |-> input_sheet_names[i],
         rows |-> DropDuplicates(Get(d, input_sheet_names[i], <<>>))]]

\* the body of save_results_to_excel's writer: for each input sheet name with an
\* entry, drop the duplicates of the frame in place and write it under that name
SavedSheets(d, input_sheet_names) ==
    LET names == Present(input_sheet_names, d)
    IN  [i \in DOMAIN names |-> [sheet_name |-> names[i], rows |-> DropDuplicates(d[names[i]])]]

\* app.main: for sheet_name, result_df in results.items(): result_df.to_excel(...)
DownloadedSheets(d, input_sheet_names) ==
    LET names == Present(input_sheet_names, d)
    IN  [i \in DOMAIN names |-> [sheet_name |-> names[i], rows |-> d[names[i]]]]

SheetNames(shs) == [i \in DOMAIN shs |-> shs[i].sheet_name]

\* the failures the writer can meet: none, the workbook cannot be opened at the
\* output path, to_excel raises at the first record of the at-th sheet it
\* writes, or the workbook cannot be saved when the writer is closed
NoFault == [kind |-> "none", at |-> 0]
Faults ==
    {NoFault, [kind |-> "open", at |-> 0], [kind |-> "close", at |-> 0]}
        \cup {[kind |-> "sheet", at |-> i] : i \in 1..2}

\* the failure f happens while the sheets out are written
Fails(f, out) ==
    \/ f.kind \in {"open", "close"}
    \/ f.kind = "sheet" /\ f.at <= Len(out)

\* what `with pd.ExcelWriter(output_path) as writer` leaves at output_path when
\* its body writes the sheets out under the failure f: leaving the block saves
\* the book also when the body raised, with the sheets written until then and
\* the sheet that failed without its records
FileLeft(f, out) ==
    CASE f.kind \in {"open", "close"} -> <<>>
      [] f.kind = "sheet" /\ f.at <= Len(out) ->
            [i \in 1..f.at |-> IF i < f.at THEN out[i]
                               ELSE [sheet_name |-> out[i].sheet_name, rows |-> <<>>]]
      [] OTHER -> out

\* the frames of the mapping d that the writer's loop reached before f
Reached(f, out) ==
    CASE f.kind = "open" -> {}
      [] f.kind = "sheet" /\ f.at <= Len(out) -> {out[i].sheet_name : i \in 1..f.at}
      [] OTHER -> {out[i].sheet_name : i \in DOMAIN out}

\* run: save_results_to_excel(results_dict, output_directory, non_empty_sheets.keys()),
\* which logs a failure and returns; then progress(100) and, in finally, finished
RunSave ==
    /\ pc = "sheet_loop"
    /\ entry = "desktop"
    /\ sheetIdx = Len(LoopSheets)
    /\ handed' = results_dict
    /\ LET out == SavedSheets(results_dict, SheetNames(LoopSheets))
       IN  /\ workbook' = FileLeft(fault, out)
           /\ results_dict' =
                [n \in DOMAIN results_dict |->
                    IF n \in Reached(fault, out) THEN DropDuplicates(results_dict[n])
                    ELSE results_dict[n]]
           /\ exc' = IF Fails(fault, out) THEN "WriteError" ELSE exc
    /\ progress' = Append(progress, [percent |-> 100, message |-> "Processing complete."])
    /\ signals' = Append(signals, [signal |-> "finished"])
    /\ pc' = "done"
    /\ UNCHANGED <<CallFrame, session_state, sheetIdx, index, page_token, studies, results, origin,
                   status_label, reports, called>>

\* app.main after the loop: `if results and not cancel_processing`, the frames
\* are written to the in-memory workbook as they are, and the flags are reset; a
\* to_excel that raises reaches the outer handler, which shows the error
MainDownload ==
    /\ pc = "sheet_loop"
    /\ entry = "streamlit"
    /\ sheetIdx = Len(LoopSheets)
    /\ handed' = results_dict
    /\ LET out == DownloadedSheets(results_dict, SheetNames(LoopSheets))
           writes == DOMAIN results_dict # {} /\ ~session_state.cancel_processing
       IN  IF writes /\ fault.kind = "sheet" /\ fault.at <= Len(out)
           THEN /\ exc' = "WriteError"
                /\ pc' = "error"
                /\ UNCHANGED <<workbook, session_state>>
           ELSE /\ workbook' = IF writes THEN out ELSE workbook
                /\ session_state' = [processing |-> FALSE, cancel_processing |-> FALSE]
                /\ pc' = "done"
                /\ UNCHANGED exc
    /\ UNCHANGED <<CallFrame, sheetIdx, index, page_token, studies, results,
                   results_dict, origin, signals, status_label, progress, reports, called>>

\* main.main: save_results_to_excel(results, output_directory) of main.py, which
\* writes pd.DataFrame(results) without its duplicates to the default sheet and
\* logs a failure
CliSave ==
    /\ pc = "returned"
    /\ entry = "cli"
    /\ handed' = [n \in {"Sheet1"} |-> results]
    /\ LET out == <<[sheet_name |-> "Sheet1", rows |-> DropDuplicates(results)]>>
       IN  /\ workbook' = FileLeft(fault, out)
           /\ exc' = IF Fails(fault, out) THEN "WriteError" ELSE exc
    /\ pc' = "done"
    /\ UNCHANGED <<CallFrame, session_state, sheetIdx, index, page_token, studies, results,
                   results_dict, origin, signals, status_label, progress, reports, called>>

MainAppFrame ==
    <<entry, sheets, registry, pc, sheetIdx, index, page_token, studies, results, exc,
      results_dict, workbook, requests, origin, filterLog, handed, fault, progress,
      reports, called, archive, session_state, cancel_at, Elsewhere>>

\* MainApp.on_processing_finished, the slot of the finished signal
on_processing_finished ==
    /\ signals # <<>>
    /\ Head(signals).signal = "finished"
    /\ signals' = Tail(signals)
    /\ status_label' = "Status: Output file generated successfully"
    /\ UNCHANGED MainAppFrame

\* MainApp.on_processing_error, the slot of the error signal
on_processing_error ==
    /\ signals # <<>>
    /\ Head(signals).signal = "error"
    /\ signals' = Tail(signals)
    /\ status_label' = "Error: " \o Head(signals).message
    /\ UNCHANGED MainAppFrame

\* ------------------------------------------------------- specification Spec
Entries == {"desktop", "streamlit", "cli"}

\* no earlier run on the same file
NoArchive == [run |-> "none", workbook |-> <<>>, handed |-> <<>>, called |-> <<>>]

\* Cancel Processing has not been clicked
NoCancel == [sheet |-> 0, row |-> 0]

\* st.session_state once Start Processing was clicked; the other programs have none
Started(e) == [processing |-> e = "streamlit", cancel_processing |-> FALSE]

\* no thread of the desktop window, no session in an auth call, empty account files
Quiet ==
    /\ threads = <<>>
    /\ now = 0
    /\ login_attempts = <<>>
    /\ users = <<>>
    /\ reset_tokens = <<>>
    /\ calls = <<>>
    /\ authLog = <<>>

\* the state every run starts in, the input apart
Fresh ==
    /\ pc = "start"
    /\ sheetIdx = 0
    /\ index = 0
    /\ page_token = None
    /\ studies = <<>>
    /\ results = <<>>
    /\ exc = None
    /\ results_dict = <<>>
    /\ workbook = <<>>
    /\ requests = <<>>
    /\ origin = <<>>
    /\ filterLog = <<>>
    /\ handed = <<>>
    /\ signals = <<>>
    /\ status_label = IF entry = "desktop" THEN "Status: Processing, please wait..." ELSE None
    /\ progress = <<>>
    /\ reports = <<>>
    /\ called = <<>>
    /\ archive = NoArchive
    /\ session_state = Started(entry)
    /\ cancel_at = NoCancel
    /\ Quiet

\* one input sheet of at most MaxRows rows, any registry, any of the programs,
\* a writer that does not fail
Init ==
    /\ entry \in Entries
    /\ \E df \in SeqsUpTo(RowPool, MaxRows) :
          sheets = <<[sheet_name |-> "Sheet1", columns |-> LayoutBioTrak, df |-> df]>>
    /\ registry \in Registries
    /\ fault = NoFault
    /\ Fresh

Next ==
    \/ RunStart
    \/ MainStart
    \/ CliStart
    \/ CallGetTrials
    \/ get_trials
    \/ RunReturned
    \/ MainReturned
    \/ RunRaised
    \/ MainRaised
    \/ CliRaised
    \/ RunSave
    \/ MainDownload
    \/ CliSave
    \/ on_processing_finished
    \/ on_processing_error

Spec == Init /\ [][Next]_vars

\* ------------------------------------------------- specification SpecSheets
\* the rows of the sheets of a two-sheet workbook
SheetRowPool == {Row(NameAB, "P1"), Row(NameDrugXR, "P2")}

\* the sheets of a two-sheet workbook: every frame of at most MaxSheetRows rows
\* under the bioTRAK layout, one frame under each other layout
SheetPool ==
    {[columns |-> LayoutBioTrak, df |-> df] : df \in SeqsUpTo(SheetRowPool, MaxSheetRows)}
        \cup {[columns |-> l, df |-> <<Row(NameAB, "P1")>>] :
                l \in {LayoutTcScrape, LayoutNoId, LayoutLowerId, LayoutNoPhase, LayoutInn}}

\* the registries of a two-sheet workbook: the pages of the two search terms
SheetRegistries ==
    {[t \in Terms |-> IF t = strip(NameAB) THEN ps[1] ELSE ps[2]] :
        ps \in { \* the same trial for both products, and on two pages of the first
                 << << Ok([studies |-> <<sFR, sJP>>, nextPageToken |-> "tok2"]),
                       Ok([studies |-> <<sJPCA>>, nextPageToken |-> "tok3"]),
                       Ok([studies |-> <<sDE>>]) >>,
                    << Ok([studies |-> <<sUS, sNoLoc, sDE>>, nextPageToken |-> ""]) >> >>,
                 \* no study for the first product
                 << << Ok([totalCount |-> "0"]) >>,
                    << Ok([studies |-> <<sUS, sNoLoc, sDE>>, nextPageToken |-> ""]) >> >>,
                 \* a non-success status for the first product
                 << << Http(404) >>, << Ok([studies |-> <<sJP, sUS>>]) >> >>,
                 \* the second product fails after its first page
                 << << Ok([studies |-> <<sDE>>, nextPageToken |-> "tok2"]), Http(500),
                       Ok([studies |-> <<sUS>>]) >>,
                    << Ok([studies |-> <<sUS>>, nextPageToken |-> "tok2"]), ConnErr >> >>,
                 \* a study of the second product lacks its trial identifier
                 << << Ok([studies |-> <<sUS, sNoLoc, sDE>>, nextPageToken |-> ""]) >>,
                    << Ok([studies |-> <<sFR, sNoNct, sUS>>]) >> >> }}

\* the user runs the Streamlit application on the file and registry of a
\* finished desktop run, whose workbook is kept for comparison
RerunInStreamlit ==
    /\ pc = "done"
    /\ entry = "desktop"
    /\ archive.run = "none"
    /\ archive' = [run |-> entry, workbook |-> workbook, handed |-> handed, called |-> called]
    /\ entry' = "streamlit"
    /\ pc' = "start"
    /\ sheetIdx' = 0
    /\ index' = 0
    /\ page_token' = None
    /\ studies' = <<>>
    /\ results' = <<>>
    /\ exc' = None
    /\ results_dict' = <<>>
    /\ workbook' = <<>>
    /\ requests' = <<>>
    /\ origin' = <<>>
    /\ filterLog' = <<>>
    /\ handed' = <<>>
    /\ signals' = <<>>
    /\ status_label' = None
    /\ progress' = <<>>
    /\ reports' = <<>>
    /\ called' = <<>>
    /\ session_state' = [processing |-> TRUE, cancel_processing |-> FALSE]
    /\ UNCHANGED <<sheets, registry, fault, cancel_at, Elsewhere>>

\* a workbook of two sheets, a registry, any of the programs, a writer that
\* does not fail
InitSheets ==
    /\ entry \in Entries
    /\ \E s1, s2 \in SheetPool :
          sheets = <<[sheet_name |-> "S1", columns |-> s1.columns, df |-> s1.df],
                     [sheet_name |-> "S2", columns |-> s2.columns, df |-> s2.df]>>
    /\ registry \in SheetRegistries
    /\ fault = NoFault
    /\ Fresh

NextSheets ==
    \/ Next
    \/ RerunInStreamlit

SpecSheets == InitSheets /\ [][NextSheets]_vars

\* -------------------------------------------------- specification SpecFault
\* a workbook of two one-row sheets and a writer that meets a failure
InitFault ==
    /\ entry \in Entries
    /\ \E r1, r2 \in SheetRowPool :
          sheets = <<[sheet_name |-> "S1", columns |-> LayoutBioTrak, df |-> <<r1>>],
                     [sheet_name |-> "S2", columns |-> LayoutTcScrape, df |-> <<r2>>]>>
    /\ registry \in SheetRegistries
    /\ fault \in Faults \ {NoFault}
    /\ Fresh

SpecFault == InitFault /\ [][Next]_vars

\* ------------------------------------------------- specification SpecCancel
\* the user clicks Cancel Processing while app.main is processing a sheet:
\* st.session_state.cancel_processing = True
CancelClicked ==
    /\ entry = "streamlit"
    /\ session_state.processing
    /\ ~session_state.cancel_processing
    /\ pc \in {"for_row", "while_page", "for_study", "returned", "raised"}
    /\ session_state' = [session_state EXCEPT !.cancel_processing = TRUE]
    /\ cancel_at' = [sheet |-> sheetIdx, row |-> index]
    /\ UNCHANGED <<entry, sheets, registry, pc, sheetIdx, index, page_token, studies,
                   results, exc, results_dict, workbook, requests, origin, filterLog,
                   handed, fault, signals, status_label, progress, reports, called,
                   archive, Elsewhere>>

\* a workbook of two sheets, the first of one to MaxSheetRows rows, the second
\* of one row, and a user who may cancel
InitCancel ==
    /\ entry \in Entries
    /\ \E df \in SeqsUpTo(SheetRowPool, MaxSheetRows) \ {<<>>}, r \in SheetRowPool :
          sheets = <<[sheet_name |-> "S1", columns |-> LayoutBioTrak, df |-> df],
                     [sheet_name |-> "S2", columns |-> LayoutTcScrape, df |-> <<r>>]>>
    /\ registry \in SheetRegistries
    /\ fault = NoFault
    /\ Fresh

NextCancel ==
    \/ Next
    \/ CancelClicked

SpecCancel == InitCancel /\ [][NextCancel]_vars

\* ------------------------------------------------- specification SpecClicks
\* the variables of one processing run, which the window's thread pool leaves alone
RunVars ==
    <<entry, sheets, registry, pc, sheetIdx, index, page_token, studies, results, exc,
      results_dict, workbook, requests, origin, filterLog, handed, fault, progress,
      reports, called, archive, session_state, cancel_at>>

AuthVars == <<now, login_attempts, users, reset_tokens, calls, authLog>>

\* MainApp.generate_output with a file and an output directory chosen: the
\* status is set and a new ProcessingThread is started, whatever the thread
\* started before is doing; its run will issue n registry requests
generate_output ==
    /\ entry = "desktop"
    /\ Len(threads) < MaxThreads
    /\ status_label' = "Status: Processing, please wait..."
    /\ \E n \in 0..MaxRequests :
          threads' = Append(threads, [pc |-> "running", todo |-> n])
    /\ UNCHANGED <<RunVars, AuthVars, signals>>

\* a thread calls requests.get, which blocks until the response is there
ThreadRequest(t) ==
    /\ threads[t].pc = "running"
    /\ threads[t].todo > 0
    /\ threads' = [threads EXCEPT ![t].pc = "in_flight"]
    /\ UNCHANGED <<RunVars, AuthVars, signals, status_label>>

\* the response arrives and the thread processes it
ThreadResponse(t) ==
    /\ threads[t].pc = "in_flight"
    /\ threads' = [threads EXCEPT ![t].pc = "running", ![t].todo = @ - 1]
    /\ UNCHANGED <<RunVars, AuthVars, signals, status_label>>

\* run comes to its end: finished is emitted in finally
ThreadFinished(t) ==
    /\ threads[t].pc = "running"
    /\ threads[t].todo = 0
    /\ threads' = [threads EXCEPT ![t].pc = "finished"]
    /\ signals' = Append(signals, [signal |-> "finished"])
    /\ UNCHANGED <<RunVars, AuthVars, status_label>>

\* no processing run is under way in the program e, whose status line shows label
Parked(e, label) ==
    /\ entry = e
    /\ sheets = <<[sheet_name |-> "S1", columns |-> LayoutBioTrak,
                   df |-> <<Row(NameAB, "P1"), Row(NameDrugXR, "P2")>>]>>
    /\ registry = [t \in Terms |-> << Ok([totalCount |-> "0"]) >>]
    /\ fault = NoFault
    /\ pc = "idle"
    /\ sheetIdx = 0
    /\ index = 0
    /\ page_token = None
    /\ studies = <<>>
    /\ results = <<>>
    /\ exc = None
    /\ results_dict = <<>>
    /\ workbook = <<>>
    /\ requests = <<>>
    /\ origin = <<>>
    /\ filterLog = <<>>
    /\ handed = <<>>
    /\ signals = <<>>
    /\ status_label = label
    /\ progress = <<>>
    /\ reports = <<>>
    /\ called = <<>>
    /\ archive = NoArchive
    /\ session_state = [processing |-> FALSE, cancel_processing |-> FALSE]
    /\ cancel_at = NoCancel

\* the desktop window with a file loaded and Generate Output enabled
InitClicks ==
    /\ Parked("desktop", "Status: Successfully loaded file")
    /\ Quiet

NextClicks ==
    \/ generate_output
    \/ \E t \in DOMAIN threads : ThreadRequest(t)
    \/ \E t \in DOMAIN threads : ThreadResponse(t)
    \/ \E t \in DOMAIN threads : ThreadFinished(t)
    \/ on_processing_finished

SpecClicks == InitClicks /\ [][NextClicks]_vars

\* -------------------------------------------------------- logic/auth.py
MAX_LOGIN_ATTEMPTS == 4
LOCKOUT_DURATION == 15

\* timedelta(hours=1), in minutes
TokenLifetime == 60

\* hashlib.sha256(password.encode()).hexdigest()
Hash(password) == <<"sha256", password>>

\* the Streamlit sessions, each running the script in a thread of its own
Sessions == {1, 2}

Email == "ann@example.com"
Passwords == {"right", "wrong"}

\* d[k] = v for a dict d
Put(d, k, v) == [x \in DOMAIN d \cup {k} |-> IF x = k THEN v ELSE d[x]]

\* del d[k]
Del(d, k) == [x \in DOMAIN d \ {k} |-> d[x]]

\* a session that is in no auth call
NoCall ==
    [fn |-> "none", pc |-> "idle", email |-> "", password |-> "", token |-> "",
     attempts |-> <<>>, tokens |-> <<>>, success |-> FALSE, wrote |-> FALSE,
     seen |-> [count |-> 0, last_attempt |-> 0], at |-> 0, started |-> 0]

\* the calls begun so far
Begun == Len(authLog) + Cardinality({s \in Sessions : calls[s].pc # "idle"})

\* the history entry of the call c of session s that returns result
Returned(s, c, result) ==
    [session |-> s, fn |-> c.fn, email |-> c.email, token |-> c.token, result |-> result,
     wrote |-> c.wrote, seen |-> c.seen, at |-> c.at, started |-> c.started]

\* everything but the account files, the sessions' calls and the clock
Pipeline == <<RunVars, signals, status_label, threads>>

\* check_login_attempts: the stored attempts of email reached the maximum and
\* the lockout has not run out at time t
Locked(attempts, email, t) ==
    /\ email \in DOMAIN attempts
    /\ attempts[email].count >= MAX_LOGIN_ATTEMPTS
    /\ t < attempts[email].last_attempt + LOCKOUT_DURATION

\* ... and the lockout has run out
LockoutOver(attempts, email, t) ==
    /\ email \in DOMAIN attempts
    /\ attempts[email].count >= MAX_LOGIN_ATTEMPTS
    /\ ~(t < attempts[email].last_attempt + LOCKOUT_DURATION)

\* authenticate_user is called and runs check_login_attempts up to its return
\* or its save: the attempts file is loaded, a locked account is refused, a
\* lockout that has run out is reset in the loaded copy
authenticate_user(s) ==
    /\ calls[s].pc = "idle"
    /\ Begun < MaxCalls
    /\ \E password \in Passwords :
          LET attempts == login_attempts
              c == [NoCall EXCEPT !.fn = "authenticate_user", !.email = Email,
                                  !.password = password, !.at = now,
                                  !.started = Len(authLog),
                                  !.seen = Get(attempts, Email, [count |-> 0, last_attempt |-> now])]
          IN  IF Locked(attempts, Email, now)
              THEN /\ authLog' = Append(authLog, Returned(s, c, "locked"))
                   /\ UNCHANGED calls
              ELSE IF LockoutOver(attempts, Email, now)
              THEN /\ calls' = [calls EXCEPT ![s] =
                                  [c EXCEPT !.pc = "check_save",
                                            !.attempts = Put(attempts, Email,
                                                [count |-> 0, last_attempt |-> now])]]
                   /\ UNCHANGED authLog
              ELSE /\ calls' = [calls EXCEPT ![s] = [c EXCEPT !.pc = "record"]]
                   /\ UNCHANGED authLog
    /\ UNCHANGED <<Pipeline, now, login_attempts, users, reset_tokens>>

\* check_login_attempts: save_login_attempts(attempts) after the reset
ResetAfterLockout(s) ==
    /\ calls[s].pc = "check_save"
    /\ login_attempts' = calls[s].attempts
    /\ calls' = [calls EXCEPT ![s].pc = "record", ![s].wrote = TRUE]
    /\ UNCHANGED <<Pipeline, now, users, reset_tokens, authLog>>

\* authenticate_user compares the password with the stored hash and calls
\* record_login_attempt, which loads the attempts file and changes its copy
record_login_attempt(s) ==
    /\ calls[s].pc = "record"
    /\ LET c == calls[s]
           success == c.email \in DOMAIN users /\ users[c.email].password = Hash(c.password)
           attempts == login_attempts
           old == Get(attempts, c.email, [count |-> 0, last_attempt |-> now])
           new == IF success THEN [old EXCEPT !.count = 0]
                  ELSE [count |-> old.count + 1, last_attempt |-> now]
       IN  calls' = [calls EXCEPT ![s].pc = "record_save", ![s].success = success,
                                  ![s].attempts = Put(attempts, c.email, new)]
    /\ UNCHANGED <<Pipeline, now, login_attempts, users, reset_tokens, authLog>>

\* record_login_attempt: save_login_attempts(attempts), and authenticate_user returns
save_login_attempts(s) ==
    /\ calls[s].pc = "record_save"
    /\ login_attempts' = calls[s].attempts
    /\ authLog' = Append(authLog,
                         Returned(s, [calls[s] EXCEPT !.wrote = TRUE],
                                  IF calls[s].success THEN "ok" ELSE "invalid"))
    /\ calls' = [calls EXCEPT ![s] = NoCall]
    /\ UNCHANGED <<Pipeline, now, users, reset_tokens>>

\* time passes
Tick(step, max) ==
    /\ now + step <= max
    /\ now' = now + step
    /\ UNCHANGED <<Pipeline, login_attempts, users, reset_tokens, calls, authLog>>

\* --------------------------------------------------- specification SpecLogin
\* one registered user; the attempts file is empty or holds three failed
\* attempts of the user, made just now
InitLogin ==
    /\ Parked("streamlit", None)
    /\ threads = <<>>
    /\ now = 0
    /\ users = [e \in {Email} |-> [password |-> Hash("right"), role |-> "user"]]
    /\ login_attempts \in {<<>>, [e \in {Email} |-> [count |-> 3, last_attempt |-> 0]]}
    /\ reset_tokens = <<>>
    /\ calls = [s \in Sessions |-> NoCall]
    /\ authLog = <<>>

NextLogin ==
    \/ \E s \in Sessions : authenticate_user(s)
    \/ \E s \in Sessions : ResetAfterLockout(s)
    \/ \E s \in Sessions : record_login_attempt(s)
    \/ \E s \in Sessions : save_login_attempts(s)
    \/ Tick(LoginTick, MaxLoginTime)

SpecLogin == InitLogin /\ [][NextLogin]_vars

\* --------------------------------------------------- specification SpecReset
\* secrets.token_urlsafe(32): the k-th token generated, unlike every other
Token(k) == <<"token", k>>

\* a token that was never generated
Unknown == Token(0)

\* the tokens the reset page has shown so far
Shown ==
    {authLog[i].token : i \in {j \in DOMAIN authLog : authLog[j].fn = "generate_reset_token"}}

\* the number of generate_reset_token calls begun
Generated ==
    Cardinality(Shown)
        + Cardinality({s \in Sessions : calls[s].fn = "generate_reset_token"})

NewPasswords == {"new1", "new2"}

\* generate_reset_token for a registered email, up to its save: the tokens
\* file is loaded and the new token is added to the loaded copy
generate_reset_token(s) ==
    /\ calls[s].pc = "idle"
    /\ Begun < MaxResetCalls
    /\ LET token == Token(Generated + 1)
       IN  calls' = [calls EXCEPT ![s] =
                       [NoCall EXCEPT !.fn = "generate_reset_token", !.pc = "tokens_save",
                                      !.email = Email, !.token = token, !.at = now,
                                      !.started = Len(authLog),
                                      !.tokens = Put(reset_tokens, token,
                                                     [email |-> Email,
                                                      expiry |-> now + TokenLifetime])]]
    /\ UNCHANGED <<Pipeline, now, login_attempts, users, reset_tokens, authLog>>

\* reset_password is called and runs validate_reset_token: the tokens file is
\* loaded; an unknown or expired token ends the call
reset_password(s) ==
    /\ calls[s].pc = "idle"
    /\ Begun < MaxResetCalls
    /\ \E token \in Shown \cup {Unknown}, new_password \in NewPasswords :
          LET tokens == reset_tokens
              valid == token \in DOMAIN tokens /\ now < tokens[token].expiry
              c == [NoCall EXCEPT !.fn = "reset_password", !.token = token,
                                  !.password = new_password, !.at = now,
                                  !.started = Len(authLog)]
          IN  IF valid
              THEN /\ calls' = [calls EXCEPT ![s] =
                                  [c EXCEPT !.pc = "set_password",
                                            !.email = tokens[token].email]]
                   /\ UNCHANGED authLog
              ELSE /\ authLog' = Append(authLog, Returned(s, c, "invalid"))
                   /\ UNCHANGED calls
    /\ UNCHANGED <<Pipeline, now, login_attempts, users, reset_tokens>>

\* reset_password: load_users, and for a registered email the new hash is
\* stored and save_users is called
set_password(s) ==
    /\ calls[s].pc = "set_password"
    /\ LET c == calls[s]
       IN  IF c.email \in DOMAIN users
           THEN /\ users' = [users EXCEPT ![c.email].password = Hash(c.password)]
                /\ calls' = [calls EXCEPT ![s].pc = "clear", ![s].wrote = TRUE]
                /\ UNCHANGED authLog
           ELSE /\ authLog' = Append(authLog, Returned(s, c, "not found"))
                /\ calls' = [calls EXCEPT ![s] = NoCall]
                /\ UNCHANGED users
    /\ UNCHANGED <<Pipeline, now, login_attempts, reset_tokens>>

\* clear_reset_token up to its save: the tokens file is loaded and the token
\* deleted from the loaded copy; without the token there is nothing to save
\* and reset_password returns
clear_reset_token(s) ==
    /\ calls[s].pc = "clear"
    /\ LET c == calls[s]
       IN  IF c.token \in DOMAIN reset_tokens
           THEN /\ calls' = [calls EXCEPT ![s].pc = "tokens_save",
                                          ![s].tokens = Del(reset_tokens, c.token)]
                /\ UNCHANGED authLog
           ELSE /\ authLog' = Append(authLog, Returned(s, c, "ok"))
                /\ calls' = [calls EXCEPT ![s] = NoCall]
    /\ UNCHANGED <<Pipeline, now, login_attempts, users, reset_tokens>>

\* save_reset_tokens(tokens), and the function that called it returns
save_reset_tokens(s) ==
    /\ calls[s].pc = "tokens_save"
    /\ reset_tokens' = calls[s].tokens
    /\ authLog' = Append(authLog,
                         Returned(s, calls[s],
                                  IF calls[s].fn = "reset_password" THEN "ok" ELSE "generated"))
    /\ calls' = [calls EXCEPT ![s] = NoCall]
    /\ UNCHANGED <<Pipeline, now, login_attempts, users>>

\* one registered user and no token
InitReset ==
    /\ Parked("streamlit", None)
    /\ threads = <<>>
    /\ now = 0
    /\ users = [e \in {Email} |-> [password |-> Hash("right"), role |-> "user"]]
    /\ login_attempts = <<>>
    /\ reset_tokens = <<>>
    /\ calls = [s \in Sessions |-> NoCall]
    /\ authLog = <<>>

NextReset ==
    \/ \E s \in Sessions : generate_reset_token(s)
    \/ \E s \in Sessions : reset_password(s)
    \/ \E s \in Sessions : set_password(s)
    \/ \E s \in Sessions : clear_reset_token(s)
    \/ \E s \in Sessions : save_reset_tokens(s)
    \/ Tick(ResetTick, MaxResetTime)

SpecReset == InitReset /\ [][NextReset]_vars

\* --------------------------------------------------- specification SpecSave
\* save_results_to_excel on its own: the records its frames may hold
SaveRecords ==
    {Details(sDE, Row(NameAB, "P1"), <<>>, <<"Germany">>),
     Details(sUS, Row(NameDrugXR, "P2"), <<>>, <<"United States">>)}

\* the mappings it may be handed: for each of three sheet names no entry or a
\* frame of at most MaxFrameRows records, at least one entry in all
SaveMappings ==
    UNION {[names -> SeqsUpTo(SaveRecords, MaxFrameRows)] :
              names \in (SUBSET {"S1", "S2", "S3"}) \ {{}}}

\* run has processed its sheets, in any order of three names, and is about to
\* call save_results_to_excel with any such mapping
InitSave ==
    /\ entry = "desktop"
    /\ \E order \in Orders({"S1", "S2", "S3"}) :
          sheets = [i \in 1..3 |-> [sheet_name |-> order[i], columns |-> LayoutBioTrak,
                                    df |-> <<Row(NameAB, "P1")>>]]
    /\ registry \in {[t \in Terms |-> << Ok([totalCount |-> "0"]) >>]}
    /\ fault = NoFault
    /\ pc = "sheet_loop"
    /\ sheetIdx = 3
    /\ results_dict \in SaveMappings
    /\ index = 0
    /\ page_token = None
    /\ studies = <<>>
    /\ results = <<>>
    /\ exc = None
    /\ workbook = <<>>
    /\ requests = <<>>
    /\ origin = <<>>
    /\ filterLog = <<>>
    /\ handed = <<>>
    /\ signals = <<>>
    /\ status_label = "Status: Processing, please wait..."
    /\ progress = <<>>
    /\ reports = <<>>
    /\ called = <<>>
    /\ archive = NoArchive
    /\ session_state = Started(entry)
    /\ cancel_at = NoCancel
    /\ Quiet

NextSave ==
    \/ RunSave
    \/ on_processing_finished

SpecSave == InitSave /\ [][NextSave]_vars

\* ================================================================ claims
\* the NCT Numbers of a sequence of records
Ncts(rows) == {rows[i].NCT_Number : i \in DOMAIN rows}

\* the position of the first row of rows that carries the NCT Number n
FirstIndex(rows, n) ==
    CHOOSE i \in DOMAIN rows :
        rows[i].NCT_Number = n /\ \A j \in DOMAIN rows : j < i => rows[j].NCT_Number # n

\* out is inp without every later row of an already-seen NCT Number
FirstOccurrences(out, inp) ==
    /\ Ncts(out) = Ncts(inp)
    /\ \A a, b \in DOMAIN out : a # b => out[a].NCT_Number # out[b].NCT_Number
    /\ \A a \in DOMAIN out : out[a] = inp[FirstIndex(inp, out[a].NCT_Number)]
    /\ \A a, b \in DOMAIN out :
          a < b => FirstIndex(inp, out[a].NCT_Number) < FirstIndex(inp, out[b].NCT_Number)

\* the programs whose writer is a save_results_to_excel
Saves == {"desktop", "cli"}

\* C1: every sheet handed to save_results_to_excel is written, and the rows
\* written are the rows handed over without every later row of an NCT Number
\* already seen: each NCT Number once, its first row kept, the order unchanged.
C1_SaveKeepsFirstOccurrences ==
    (pc = "done" /\ entry \in Saves) =>
        /\ {workbook[i].sheet_name : i \in DOMAIN workbook} = DOMAIN handed
        /\ \A i \in DOMAIN workbook :
              FirstOccurrences(workbook[i].rows, handed[workbook[i].sheet_name])

\* a save that removed a later row of a trial and kept rows of two trials
C1_Witness ==
    /\ pc = "done"
    /\ entry = "desktop"
    /\ \E i \in DOMAIN workbook :
          LET inp == handed[workbook[i].sheet_name]
              out == workbook[i].rows
          IN  /\ Len(out) >= 2
              /\ Len(out) < Len(inp)
              /\ \E a, b \in DOMAIN inp :
                    a < b /\ inp[a].NCT_Number = inp[b].NCT_Number /\ inp[a] # inp[b]

\* C2: in every workbook a program produces, an NCT Number appears at most
\* once within one output sheet.
C2_NctOncePerSheet ==
    pc = "done" =>
        \A i \in DOMAIN workbook :
            \A a, b \in DOMAIN workbook[i].rows :
                a # b => workbook[i].rows[a].NCT_Number # workbook[i].rows[b].NCT_Number

\* the positions at which get_trials is running, or has just ended, its call
InCall == {"for_row", "while_page", "for_study", "returned", "raised"}

IsPrefix(p, q) == Len(p) <= Len(q) /\ SubSeq(q, 1, Len(p)) = p

\* the allow-list of the geographic filter, as the specification enumerates it
AllowList ==
    {"United States", "Canada",
     "Austria", "Belgium", "Bulgaria", "Croatia", "Cyprus", "Czech Republic",
     "Denmark", "Estonia", "Finland", "France", "Germany", "Greece", "Hungary",
     "Iceland", "Ireland", "Italy", "Latvia", "Lithuania", "Luxembourg", "Malta",
     "Netherlands", "Norway", "Poland", "Portugal", "Romania", "Slovakia",
     "Slovenia", "Spain", "Sweden", "Switzerland", "United Kingdom"}

\* the countries of the location entries of a study that name one
LocationCountries(study) ==
    IF "contactsLocationsModule" \notin DOMAIN study.protocolSection THEN {}
    ELSE IF "locations" \notin DOMAIN study.protocolSection.contactsLocationsModule THEN {}
    ELSE LET l == study.protocolSection.contactsLocationsModule.locations
         IN  {c \in AllowList \cup {"Japan"} :
                 \E i \in DOMAIN l : "country" \in DOMAIN l[i] /\ l[i].country = c}

GeoRelevant(study) == LocationCountries(study) \cap AllowList # {}

\* the request i ended only the pagination of its row: no later request is for
\* that row, the records collected before it stay in results, nothing is raised
\* by it, and every later row with an ID is searched before get_trials returns
EndsPaginationOnly(i) ==
    LET r == requests[i]
    IN  /\ \A j \in DOMAIN requests :
              j > i => (requests[j].sheet # r.sheet \/ requests[j].row > r.row)
        /\ (r.sheet = sheetIdx /\ pc \in InCall) => IsPrefix(r.kept, results)
        /\ i = Len(requests) => pc \notin {"raised", "error", "crashed", "for_study"}
        /\ (r.sheet = sheetIdx /\ pc = "returned") =>
              \A k \in (r.row + 1)..Len(df_input) :
                  \/ df_input[k].product_id \in {None, NaN}
                  \/ \E j \in DOMAIN requests :
                        j > i /\ requests[j].sheet = r.sheet /\ requests[j].row = k

\* the request met a request-level exception: no response, or an undecodable body
RequestLevelException(r) ==
    \/ r.kind = "ConnectionError"
    \/ r.kind = "response" /\ r.status_code = 200 /\ ~r.decodes

\* C3: a request-level exception while fetching a page does not leave
\* get_trials: it ends the pagination of its row only, the records collected
\* before it are kept and the later rows are processed.
C3_RequestExceptionAbsorbed ==
    \A i \in DOMAIN requests :
        RequestLevelException(requests[i]) => EndsPaginationOnly(i)

\* the study lacks its trial identifier, its sponsor name or its overall status
LacksRequiredField(study) ==
    LET ps == study.protocolSection
    IN  \/ "nctId" \notin DOMAIN ps.identificationModule
        \/ "leadSponsor" \notin DOMAIN ps.sponsorCollaboratorsModule
        \/ "name" \notin DOMAIN ps.sponsorCollaboratorsModule.leadSponsor
        \/ "overallStatus" \notin DOMAIN ps.statusModule

\* C4: a geographically relevant study that lacks its trial identifier,
\* sponsor name or overall status is skipped alone: get_trials does not raise
\* at it.
C4_IncompleteStudySkipped ==
    (studies # <<>> /\ GeoRelevant(Head(studies)) /\ LacksRequiredField(Head(studies))) =>
        pc # "raised"

\* C5: a non-success status ends the pagination of its row only: no further
\* request for that row, the records collected before it stay in the result,
\* nothing is raised, and the next rows are processed.
C5_StatusEndsPaginationOnly ==
    \A i \in DOMAIN requests :
        (requests[i].kind = "response" /\ requests[i].status_code # 200) =>
            EndsPaginationOnly(i)

\* get_trials returned after a second page failed with records already kept,
\* and a later row was searched and added records
C5_Witness ==
    /\ pc = "returned"
    /\ \E i \in DOMAIN requests :
          /\ requests[i].kind = "response" /\ requests[i].status_code # 200
          /\ requests[i].url.pageToken # None
          /\ requests[i].kept # <<>>
          /\ requests[i].row < Len(df_input)
          /\ \E j \in DOMAIN requests : j > i /\ requests[j].row > requests[i].row
          /\ Len(results) > Len(requests[i].kept)

\* the token the registry hands out for page i
TokenOf(i) == CASE i = 2 -> "tok2" [] i = 3 -> "tok3"

\* pages 1..k carry a continuation token and page k+1 carries none or an empty one
TokenShape(pages, k) ==
    /\ k + 1 <= Len(pages)
    /\ \A i \in 1..(k + 1) :
          /\ pages[i].kind = "response" /\ pages[i].status_code = 200 /\ pages[i].decodes
          /\ IF i <= k
             THEN "nextPageToken" \in DOMAIN pages[i].data
                  /\ pages[i].data.nextPageToken = TokenOf(i + 1)
             ELSE "nextPageToken" \in DOMAIN pages[i].data => pages[i].data.nextPageToken = ""

\* the requests issued for row r of the running call, in order
RequestsOfRow(r) ==
    SelectSeq(requests, LAMBDA q : q.sheet = sheetIdx /\ q.row = r)

\* the places of the studies visited for row r of the running call, in order
VisitedOfRow(r) ==
    LET log == SelectSeq(filterLog, LAMBDA e : e.place.sheet = sheetIdx /\ e.place.row = r)
    IN  [i \in DOMAIN log |-> <<log[i].place.page, log[i].place.pos>>]

\* the studies of page i of the row's search term
StudiesOfPage(pages, i) ==
    IF "studies" \in DOMAIN pages[i].data THEN pages[i].data.studies ELSE <<>>

RECURSIVE PlacesUpTo(_, _)
\* the places of the studies of pages 1..n, in page order
PlacesUpTo(pages, n) ==
    IF n = 0 THEN <<>>
    ELSE PlacesUpTo(pages, n - 1)
         \o [j \in 1..Len(StudiesOfPage(pages, n)) |-> <<n, j>>]

\* get_trials is through with row r of the running call
RowOver(r) ==
    /\ pc \in InCall
    /\ \/ r < index
       \/ r = index /\ pc \in {"for_row", "returned", "raised"}

\* C6: for a row whose registry returns a continuation token on its first k
\* pages and omits it on page k+1, get_trials issues exactly k+1 requests, one
\* per page in page order, visits the studies of all k+1 pages in page order,
\* and moves on.
C6_PaginationEndsAfterLastPage ==
    \A r \in 1..index, k \in 0..2 :
        LET pages == registry[strip(df_input[r].Product_Name)]
            reqs == RequestsOfRow(r)
        IN  (RowOver(r) /\ df_input[r].product_id \notin {None, NaN} /\ TokenShape(pages, k)) =>
                /\ Len(reqs) = k + 1
                /\ \A i \in DOMAIN reqs :
                      reqs[i].url.pageToken = IF i = 1 THEN None ELSE TokenOf(i)
                /\ VisitedOfRow(r) = PlacesUpTo(pages, k + 1)

\* C7: a row whose external ID is absent issues no registry request and
\* produces no record, and every later row with an ID is still searched.
C7_RowWithoutIdSkipped ==
    \A r \in 1..index :
        (pc \in InCall /\ df_input[r].product_id \in {None, NaN}) =>
            /\ RequestsOfRow(r) = <<>>
            /\ \A i \in DOMAIN origin : origin[i].row # r
            /\ pc = "returned" =>
                  \A k \in (r + 1)..Len(df_input) :
                      df_input[k].product_id \notin {None, NaN} => RequestsOfRow(k) # <<>>

\* C8: the geographic filter accepts a country set exactly when it holds one of
\* United States, Canada or the 31 enumerated European countries: {France} and
\* {Japan, Canada} are accepted, {Japan} and the empty set are rejected.
C8_FilterAcceptsAllowListOnly ==
    /\ Cardinality(european_countries) = 31
    /\ european_countries = {EUROPEAN_COUNTRIES[i] : i \in DOMAIN EUROPEAN_COUNTRIES}
    /\ \A i \in DOMAIN filterLog :
          /\ filterLog[i].accepted <=> (\E c \in filterLog[i].countries : c \in AllowList)
          /\ filterLog[i].countries = {"France"} => filterLog[i].accepted
          /\ filterLog[i].countries = {"Japan", "Canada"} => filterLog[i].accepted
          /\ filterLog[i].countries = {"Japan"} => ~filterLog[i].accepted
          /\ filterLog[i].countries = {} => ~filterLog[i].accepted

\* the filter has decided {France}, {Japan, Canada}, {Japan} and the empty set
C8_Witness ==
    \A cs \in {{"France"}, {"Japan", "Canada"}, {"Japan"}, {}} :
        \E i \in DOMAIN filterLog : filterLog[i].countries = cs

\* the study the registry serves at a place of the running call
StudyAt(place) ==
    StudiesOfPage(registry[strip(df_input[place.row].Product_Name)], place.page)[place.pos]

\* the places of the studies visited so far in the running call
VisitedPlaces == {filterLog[i].place : i \in {j \in DOMAIN filterLog : filterLog[j].place.sheet = sheetIdx}}

\* the places of all studies of the pages decoded so far in the running call
ServedPlaces ==
    UNION {{[sheet |-> sheetIdx, row |-> requests[i].row,
             page |-> IF requests[i].url.pageToken = None THEN 1
                      ELSE PageOfToken(requests[i].url.pageToken),
             pos |-> j] :
               j \in DOMAIN Get(Serve(requests[i].url).data, "studies", <<>>)} :
           i \in {n \in DOMAIN requests :
                     /\ requests[n].sheet = sheetIdx
                     /\ requests[n].kind = "response"
                     /\ requests[n].status_code = 200
                     /\ requests[n].decodes}}

\* C9: the filter decides study by study: results holds exactly one record for
\* each visited study whose location countries meet the allow-list and none for
\* a study whose countries do not or that has no location data, whatever the
\* other studies of the row are; when get_trials returns, every study of every
\* page it decoded has been visited.
C9_OneRecordPerRelevantStudy ==
    pc \in InCall =>
        /\ Len(origin) = Len(results)
        /\ \A i \in DOMAIN origin : origin[i] \in VisitedPlaces
        /\ \A p \in VisitedPlaces :
              Cardinality({i \in DOMAIN origin : origin[i] = p}) =
                  IF GeoRelevant(StudyAt(p)) THEN 1 ELSE 0
        /\ \A i \in DOMAIN results :
              results[i].NCT_Number = StudyAt(origin[i]).protocolSection.identificationModule.nctId
        /\ pc = "returned" => VisitedPlaces = ServedPlaces

\* get_trials returned for a row whose first page held a relevant study next to
\* an irrelevant one and to one without location data
C9_Witness ==
    /\ pc = "returned"
    /\ \E p, q, n \in VisitedPlaces :
          /\ p.row = q.row /\ p.page = q.page /\ n.row = p.row /\ n.page = p.page
          /\ GeoRelevant(StudyAt(p))
          /\ LocationCountries(StudyAt(q)) = {}
          /\ \E i \in DOMAIN origin : origin[i] = p
    /\ \E p, q \in VisitedPlaces :
          /\ p.row = q.row /\ p.page = q.page
          /\ GeoRelevant(StudyAt(p))
          /\ LocationCountries(StudyAt(q)) = {"Japan"}

\* C10: every record of results carries the external ID, the product name and
\* the original phase of the row whose search returned its study, and the NCT
\* Number of that study.
C10_RecordTaggedWithItsRow ==
    pc \in InCall =>
        /\ Len(origin) = Len(results)
        /\ \A i \in DOMAIN results :
              LET row == df_input[origin[i].row]
              IN  /\ results[i].id_column = row.product_id
                  /\ results[i].Product_Name = row.Product_Name
                  /\ results[i].original_phase = row.Original_Phase
                  /\ results[i].NCT_Number =
                        StudyAt(origin[i]).protocolSection.identificationModule.nctId

\* get_trials returned records of two rows that differ in ID and phase
C10_Witness ==
    /\ pc = "returned"
    /\ \E i, j \in DOMAIN results :
          /\ origin[i].row # origin[j].row
          /\ results[i].id_column # results[j].id_column
          /\ results[i].original_phase # results[j].original_phase
          /\ results[i].NCT_Number = results[j].NCT_Number

\* the value of field f of section m of a study, or d when the section or the field is absent
FieldOr(study, m, f, d) ==
    IF m \notin DOMAIN study.protocolSection THEN d
    ELSE IF f \notin DOMAIN study.protocolSection[m] THEN d
    ELSE study.protocolSection[m][f]

\* the date of a date structure of the status section, or "Not Available"
DateOr(study, f) ==
    IF f \notin DOMAIN study.protocolSection.statusModule THEN "Not Available"
    ELSE IF "date" \notin DOMAIN study.protocolSection.statusModule[f] THEN "Not Available"
    ELSE study.protocolSection.statusModule[f].date

\* C12: a record carries the documented defaults: Is FDA Regulated Drug is false
\* without oversightModule or isFdaRegulatedDrug, Phase on CT.gov is "Not
\* Available" without designModule or phases, the dates are "Not Available"
\* without their structures, Conditions is empty without conditions; otherwise
\* the value is the study's (first phase, comma-joined conditions).
C12_DefaultsApplied ==
    pc \in InCall =>
        \A i \in DOMAIN results :
            LET study == StudyAt(origin[i])
                r == results[i]
            IN  /\ r.Is_FDA_Regulated_Drug = FieldOr(study, "oversightModule", "isFdaRegulatedDrug", FALSE)
                /\ r.Phase_on_CT_gov = FieldOr(study, "designModule", "phases", <<"Not Available">>)[1]
                /\ r.Trial_Start_Date = DateOr(study, "startDateStruct")
                /\ r.Trial_End_Date = DateOr(study, "completionDateStruct")
                /\ r.Conditions = Join(FieldOr(study, "conditionsModule", "conditions", <<>>))
                /\ study = sFR =>
                      /\ r.Phase_on_CT_gov = "PHASE2" /\ r.Conditions = "Flu, Cold"
                      /\ r.Is_FDA_Regulated_Drug = TRUE
                      /\ r.Trial_Start_Date = "2020-01" /\ r.Trial_End_Date = "2021-06"
                /\ study \in {sDE, sUS} =>
                      /\ r.Phase_on_CT_gov = "Not Available" /\ r.Conditions = ""
                      /\ r.Is_FDA_Regulated_Drug = FALSE
                      /\ r.Trial_End_Date = "Not Available"

\* get_trials returned records of a study that supplies every value, of one whose
\* optional sections are absent and of one whose sections lack the fields
C12_Witness ==
    /\ pc = "returned"
    /\ \A s \in {sFR, sDE, sUS} : \E i \in DOMAIN results : StudyAt(origin[i]) = s

\* the study carries its three required sections with trial identifier, sponsor
\* name and overall status
HasRequiredFields(study) ==
    /\ "protocolSection" \in DOMAIN study
    /\ {"identificationModule", "statusModule", "sponsorCollaboratorsModule"}
          \subseteq DOMAIN study.protocolSection
    /\ ~LacksRequiredField(study)

\* C13: get_trials never raises at a study that carries its trial identifier,
\* sponsor name and overall status, whatever optional section or field is
\* absent or empty (an empty phases list, a location without country, an
\* intervention without name).
C13_CompleteStudyNeverRaises ==
    (pc = "raised" /\ exc \in {"KeyError", "IndexError"} /\ studies # <<>>) =>
        ~HasRequiredFields(Head(studies))

\* C14: the search term of every request escapes '[' as '\[' and ']' as '\]':
\* for a product name with brackets the term holds both escapes and neither
\* %5B nor %5D.
C14_BracketsBackslashEscaped ==
    \A i \in DOMAIN requests :
        LET name == LoopSheets[requests[i].sheet].df[requests[i].row].Product_Name
            term == requests[i].url.term
        IN  (In(<<"[">>, name) /\ In(<<"]">>, name)) =>
                /\ In(<<"\\", "[">>, term)
                /\ In(<<"\\", "]">>, term)
                /\ ~In(<<"%", "5", "B">>, term)
                /\ ~In(<<"%", "5", "D">>, term)

\* b holds the rows of a in another order
IsPermutation(a, b) ==
    /\ Len(a) = Len(b)
    /\ \E f \in [DOMAIN a -> DOMAIN a] :
          /\ \A i, j \in DOMAIN a : i # j => f[i] # f[j]
          /\ \A i \in DOMAIN a : b[i] = a[f[i]]

\* the rows of the sheet named n of a workbook
RowsOf(wb, n) ==
    LET hits == SelectSeq(wb, LAMBDA sh : sh.sheet_name = n)
    IN  IF hits = <<>> THEN <<>> ELSE Head(hits).rows

\* the records of a sequence as a set, the order of the joined countries apart
RecordSet(rows) == {[rows[i] EXCEPT !.Location_on_CT_gov = ""] : i \in DOMAIN rows}

\* a finished desktop run on a workbook whose second sheet holds the rows of
\* the first in another order
PermutedSheetsSaved ==
    /\ pc = "done"
    /\ entry = "desktop"
    /\ archive.run = "none"
    /\ sheets[1].columns = sheets[2].columns
    /\ sheets[1].df # sheets[2].df
    /\ IsPermutation(sheets[1].df, sheets[2].df)

\* C11 as stated: for fixed registry responses the deduplicated output of a
\* sheet is the same set of records for every order of its rows.
C11_OutputIndependentOfRowOrder ==
    PermutedSheetsSaved =>
        RecordSet(RowsOf(workbook, "S1")) = RecordSet(RowsOf(workbook, "S2"))

\* C11 as amended: for fixed registry responses every order of the rows yields
\* the same set of records before duplicate removal and the same NCT Numbers
\* after it, each once; the record that survives for a trial is the one of the
\* row that comes first.
C11_SameTrialsWhateverRowOrder ==
    PermutedSheetsSaved =>
        /\ RecordSet(handed["S1"]) = RecordSet(handed["S2"])
        /\ Ncts(RowsOf(workbook, "S1")) = Ncts(RowsOf(workbook, "S2"))
        /\ Len(RowsOf(workbook, "S1")) = Len(RowsOf(workbook, "S2"))
        /\ \A n \in {"S1", "S2"} : FirstOccurrences(RowsOf(workbook, n), handed[n])

\* two orders of the same rows were saved and the survivors of a trial differ
C11_Witness ==
    /\ PermutedSheetsSaved
    /\ \E a \in DOMAIN RowsOf(workbook, "S1"), b \in DOMAIN RowsOf(workbook, "S2") :
          /\ RowsOf(workbook, "S1")[a].NCT_Number = RowsOf(workbook, "S2")[b].NCT_Number
          /\ RowsOf(workbook, "S1")[a].id_column # RowsOf(workbook, "S2")[b].id_column

\* the sheet has a column whose name contains one of the two ID names
HasIdColumn(columns) ==
    \E k \in DOMAIN columns : In(IdTcScrape, columns[k]) \/ In(ColBioTrakId, columns[k])

\* the names of the elements of a history
NamesIn(h) == {h[i] : i \in DOMAIN h}

\* a message about the sheet named n has been logged or shown
Reported(n) == \E i \in DOMAIN reports : reports[i].sheet_name = n

\* the part of C15 about the call: a sheet without ID column is invalid, has no
\* column find_id_column resolves and is never handed to get_trials, and every
\* valid sheet has a column that find_id_column resolves
C15_NoCallWithoutIdColumn ==
    entry \in {"desktop", "streamlit"} =>
        \A k \in DOMAIN sheets :
            /\ ~HasIdColumn(sheets[k].columns) =>
                  /\ ~validate_excel_content(sheets[k].columns)
                  /\ find_id_column(sheets[k].columns) = None
                  /\ sheets[k].sheet_name \notin NamesIn(called)
            /\ validate_excel_content(sheets[k].columns) =>
                  /\ find_id_column(sheets[k].columns) # None
                  /\ HasColumn(sheets[k].columns, find_id_column(sheets[k].columns))
                  /\ HasIdColumn(<<find_id_column(sheets[k].columns)>>)

\* C15: get_trials is never called for a sheet without a column whose name
\* contains "TC Scrape Number" or "bioTRAK Product ID": the sheet is invalid,
\* find_id_column gives None for it, every valid sheet has a column that
\* find_id_column resolves, and when the run ends the caller has reported the
\* sheet as an error or a skip.
C15_SheetWithoutIdReportedNotProcessed ==
    /\ C15_NoCallWithoutIdColumn
    /\ (entry \in {"desktop", "streamlit"} /\ pc = "done") =>
          \A k \in DOMAIN sheets :
              ~HasIdColumn(sheets[k].columns) => Reported(sheets[k].sheet_name)

\* the run told its caller that it succeeded
SuccessReported ==
    \/ \E i \in DOMAIN progress : progress[i].message = "Processing complete."
    \/ status_label = "Status: Output file generated successfully"

\* C16: after save_results_to_excel failed to write the workbook, the desktop
\* run reports no success: no "Processing complete." progress and no "Output
\* file generated successfully" status.
C16_WriteFailureNotReportedAsSuccess ==
    (entry = "desktop" /\ exc = "WriteError") => ~SuccessReported

\* C18: when writing a sheet fails part-way through save_results_to_excel, no
\* workbook is left at the output path.
C18_NoWorkbookAfterFailedWrite ==
    (entry = "desktop" /\ exc = "WriteError" /\ fault.kind = "sheet") => workbook = <<>>

\* a sheet was processed on both runs and gave no record
GaveNoRecord(n) ==
    /\ n \in NamesIn(called) \cap NamesIn(archive.called)
    /\ archive.handed[n] = <<>>

\* the workbook wb has a sheet named n
Written(wb, n) == \E i \in DOMAIN wb : wb[i].sheet_name = n

\* C17: a sheet whose processing yields no record is handled the same way by
\* the desktop and the Streamlit path, written empty by both or omitted by
\* both, and every sheet that has records is written by both.
C17_EmptySheetHandledAlike ==
    (pc = "done" /\ archive.run # "none") =>
        /\ \A n \in {"S1", "S2"} :
              GaveNoRecord(n) => (Written(archive.workbook, n) <=> Written(workbook, n))
        /\ \A n \in DOMAIN archive.handed :
              archive.handed[n] # <<>> => (Written(archive.workbook, n) /\ Written(workbook, n))

\* the part of C17 that the code meets: a sheet without records never keeps a
\* sheet with records out of the workbook
C17_SheetsWithRecordsWritten ==
    (pc = "done" /\ archive.run # "none") =>
        \A n \in DOMAIN archive.handed :
            archive.handed[n] # <<>> => (Written(archive.workbook, n) /\ Written(workbook, n))

\* C19: duplicate removal is scoped to one sheet: every output sheet holds the
\* first occurrences of the frame handed over for that sheet alone, so a trial
\* returned for rows of two sheets is kept once in each.
C19_DuplicatesRemovedPerSheet ==
    (pc = "done" /\ entry = "desktop" /\ archive.run = "none") =>
        /\ \A n \in DOMAIN handed :
              /\ Written(workbook, n)
              /\ FirstOccurrences(RowsOf(workbook, n), handed[n])
        /\ \A t \in Ncts(Get(handed, "S1", <<>>)) \cap Ncts(Get(handed, "S2", <<>>)) :
              \A n \in {"S1", "S2"} :
                 Cardinality({i \in DOMAIN RowsOf(workbook, n) :
                                 RowsOf(workbook, n)[i].NCT_Number = t}) = 1

\* both output sheets hold a trial that was returned for rows of both input
\* sheets, and a later row of it was removed within one sheet
C19_Witness ==
    /\ pc = "done" /\ entry = "desktop" /\ archive.run = "none"
    /\ \E t \in Ncts(RowsOf(workbook, "S1")) \cap Ncts(RowsOf(workbook, "S2")) :
          \E n \in {"S1", "S2"} :
             Cardinality({i \in DOMAIN handed[n] : handed[n][i].NCT_Number = t}) > 1

\* the position of the name n in the sequence of names
PositionOf(names, n) == CHOOSE i \in DOMAIN names : names[i] = n

FirstOfRow(i) ==
    \/ i = 1
    \/ requests[i - 1].sheet # requests[i].sheet
    \/ requests[i - 1].row # requests[i].row

\* C21: each row starts a fresh pagination cursor: the first request of a row
\* carries no pageToken, however the previous row ended, and every later
\* request of a row carries the token that the response to the request before
\* it, of the same row and term, returned; a row about to issue its first
\* request holds no token.
C21_FreshCursorPerRow ==
    /\ \A i \in DOMAIN requests :
          IF FirstOfRow(i) THEN requests[i].url.pageToken = None
          ELSE LET prev == Serve(requests[i - 1].url)
               IN  /\ requests[i - 1].url.term = requests[i].url.term
                   /\ prev.kind = "response" /\ prev.status_code = 200 /\ prev.decodes
                   /\ "nextPageToken" \in DOMAIN prev.data
                   /\ requests[i].url.pageToken = prev.data.nextPageToken
    /\ \A i, j \in DOMAIN requests :
          (i < j /\ requests[i].sheet = requests[j].sheet /\ requests[i].row = requests[j].row) =>
              \A k \in i..j : requests[k].row = requests[i].row
    /\ (pc = "while_page" /\ RequestsOfRow(index) = <<>>) => page_token = None

\* a row whose pagination ended at a non-success status with a token in hand, and
\* one that ended at its last page, were each followed by a row whose first
\* request carried no token, and a third page was asked for with its token
C21_Witness ==
    /\ \E i \in DOMAIN requests :
          /\ requests[i].status_code # 200
          /\ requests[i].url.pageToken # None
          /\ i + 1 \in DOMAIN requests
          /\ requests[i + 1].row > requests[i].row
          /\ requests[i + 1].url.pageToken = None
          /\ \E j \in DOMAIN requests : j > i /\ requests[j].url.pageToken = "tok3"

\* C24: a study whose location countries do not meet the allow-list never
\* makes get_trials raise, whatever section or required field it lacks.
C24_IrrelevantStudyNeverRaises ==
    (studies # <<>> /\ "protocolSection" \in DOMAIN Head(studies) /\ ~GeoRelevant(Head(studies))) =>
        pc # "raised"

\* C25: in the desktop application an exception out of get_trials for one
\* sheet leaves the sheets processed before it written to the workbook.
C25_EarlierSheetsSavedAfterError ==
    (entry = "desktop" /\ pc = "error" /\ archive.run = "none") =>
        \A n \in DOMAIN results_dict : Written(workbook, n)

\* C26: when ProcessingThread.run ended with an error and its signals are
\* delivered, the status label shows the error message.
C26_ErrorStatusNotOverwritten ==
    (entry = "desktop" /\ pc = "error" /\ signals = <<>>) =>
        status_label = "Error: " \o exc

\* the request was issued for a row that comes after the place p
After(r, p) == r.sheet > p.sheet \/ (r.sheet = p.sheet /\ r.row > p.row)

\* the part of C23 about the workbook: a run in which Cancel Processing was
\* clicked produces no workbook
C23_NoWorkbookAfterCancel ==
    cancel_at # NoCancel => workbook = <<>>

\* C23: once the cancellation flag is set while a sheet is processed, no
\* registry request is issued for a row after the one in progress, and the
\* run produces no workbook.
C23_CancelAtNextRowBoundary ==
    (cancel_at # NoCancel /\ cancel_at.row > 0) =>
        /\ \A i \in DOMAIN requests : ~After(requests[i], cancel_at)
        /\ workbook = <<>>

\* C27: when a Streamlit processing run has ended, with results, without,
\* cancelled or in the outer exception handler, the flags processing and
\* cancel_processing are both False.
C27_FlagsClearedWhenRunEnds ==
    (entry = "streamlit" /\ pc \in {"done", "error", "cancelled"}) =>
        (~session_state.processing /\ ~session_state.cancel_processing)

\* the part of C27 that the code meets: the flags are False after a run that
\* reached its end or was cancelled
C27_FlagsClearedUnlessRaised ==
    (entry = "streamlit" /\ pc \in {"done", "cancelled"}) =>
        (~session_state.processing /\ ~session_state.cancel_processing)

\* the threads with a registry request in flight, and those still running
InFlight == {t \in DOMAIN threads : threads[t].pc = "in_flight"}
Running == {t \in DOMAIN threads : threads[t].pc # "finished"}

\* C22: at most one registry request is in flight at any time, and the desktop
\* application never has two processing threads running, also when Generate
\* Output is clicked again during a run.
C22_OneRequestAtATime ==
    /\ Cardinality(InFlight) <= 1
    /\ Cardinality(Running) <= 1

\* the stored number of failed attempts of the email
StoredCount(email) == Get(login_attempts, email, [count |-> 0, last_attempt |-> 0]).count

\* the part of C28 about the refusal: a call that finds the stored count at the
\* maximum less than LOCKOUT_DURATION minutes after the stored last attempt is
\* refused, whatever the password, and writes nothing
C28_LockedCallRefused ==
    \A i \in DOMAIN authLog :
        (/\ authLog[i].fn = "authenticate_user"
         /\ authLog[i].seen.count >= MAX_LOGIN_ATTEMPTS
         /\ authLog[i].at < authLog[i].seen.last_attempt + LOCKOUT_DURATION) =>
            (authLog[i].result = "locked" /\ ~authLog[i].wrote)

\* C28: once the stored count of an email is at MAX_LOGIN_ATTEMPTS, every call
\* made less than 15 minutes after the last recorded failed attempt is
\* refused, also with the right password, and writes nothing; the stored count
\* never exceeds MAX_LOGIN_ATTEMPTS.
C28_LockoutHoldsCountCapped ==
    /\ C28_LockedCallRefused
    /\ StoredCount(Email) <= MAX_LOGIN_ATTEMPTS

\* every call so far was a failed login that found the account unlocked
OnlyFailedLogins ==
    /\ authLog # <<>>
    /\ \A i \in DOMAIN authLog :
          /\ authLog[i].fn = "authenticate_user"
          /\ authLog[i].result = "invalid"
          /\ authLog[i].seen.count < MAX_LOGIN_ATTEMPTS

\* the stored count before the first of the calls
CountBefore == authLog[1].seen.count

\* C29: every failed attempt recorded is counted: after failed logins of the
\* sessions, concurrent or not, the stored count has grown by their number.
C29_EveryFailedAttemptCounted ==
    (OnlyFailedLogins /\ \A s \in Sessions : calls[s].pc = "idle") =>
        StoredCount(Email) = CountBefore + Len(authLog)

\* the reset_password calls that returned
Resets == {i \in DOMAIN authLog : authLog[i].fn = "reset_password"}

\* the part of C30 about tokens that are unknown or past their expiry: a call
\* made with one changes no password
C30_UnknownOrExpiredNeverChanges ==
    \A j \in Resets :
        /\ authLog[j].token = Unknown => ~authLog[j].wrote
        /\ \A g \in DOMAIN authLog :
              (/\ authLog[g].fn = "generate_reset_token"
               /\ authLog[g].token = authLog[j].token
               /\ authLog[j].at >= authLog[g].at + TokenLifetime) => ~authLog[j].wrote

\* the part of C30 about later calls: a reset_password made after one with the
\* same token has returned with success fails and changes no password
C30_LaterResetFails ==
    \A i, j \in Resets :
        (/\ authLog[i].result = "ok"
         /\ authLog[j].token = authLog[i].token
         /\ authLog[j].started >= i) =>
            (authLog[j].result # "ok" /\ ~authLog[j].wrote)

\* C30: a reset token changes a password at most once: a reset_password made
\* after a successful one with the same token fails and changes nothing, and
\* an unknown or expired token never changes a password.
C30_TokenChangesPasswordOnce ==
    /\ \A i, j \in Resets :
          (i # j /\ authLog[i].token = authLog[j].token) =>
              ~(authLog[i].wrote /\ authLog[j].wrote)
    /\ C30_LaterResetFails
    /\ C30_UnknownOrExpiredNeverChanges

====
